---- MODULE Spec2Model ----
(***************************************************************************)
(* Transaction store of synctera_coding_challenge: the MemoryStore         *)
(* (internal/store), its Transaction value type (internal/model) and the   *)
(* callers that run Create, Get and List against one shared store; the     *)
(* functions of internal/api and its handlers for POST /transactions and   *)
(* GET /transactions; a client that reads the store page by page while     *)
(* records are created; and the goroutines under a fair scheduler.         *)
(***************************************************************************)
EXTENDS Integers, Sequences, FiniteSets, TLC

(***************************************************************************)
(* Bounds of the model.                                                    *)
(***************************************************************************)
\* number of goroutines calling the store in the concurrent workload
NumProcs == 2
\* effective_at instants are 1..MaxInstant
MaxInstant == 2
\* List is called with limit in -1..MaxLimit
MaxLimit == 3
\* List is called with offset in -1..MaxOffset
MaxOffset == 4
\* a caller holds on to the last MaxHeld transactions it passed or was returned
MaxHeld == 1
\* an int of the model is IntBits wide, two's complement (Go's int is 64 wide)
IntBits == 12
\* maxRecords of ListTransactions, the batch it asks List for: 10000 in the
\* source, here a size that the stores of the model can exceed
maxRecords == 2

(***************************************************************************)
(* Values.                                                                 *)
(***************************************************************************)
\* the transaction ids in use, in the lexicographic order of Go's string <
IDs == <<"aaa", "mmm", "zzz">>

IdSet == {IDs[i] : i \in 1..Len(IDs)}

\* Go's `a < b` on the strings of IDs
StrLess(a, b) ==
    \E i, j \in 1..Len(IDs) : IDs[i] = a /\ IDs[j] = b /\ i < j

\* the largest and the smallest int
MaxInt == 2 ^ (IntBits - 1) - 1

MinInt == -(2 ^ (IntBits - 1))

\* the int that the sum or difference x of two ints is, after wrap-around
Wrap(x) == ((x - MinInt) % (2 ^ IntBits)) + MinInt

EmptyKV == [k \in {} |-> ""]

\* a map[string]string: the nil map, or a made map with its key/value pairs
NilMap == [isNil |-> TRUE, kv |-> EmptyKV]

MakeMap(kv) == [isNil |-> FALSE, kv |-> kv]

\* len(m) of a map, 0 for the nil map
MapLen(m) == Cardinality(DOMAIN m.kv)

\* the key/value pairs of a map, none for the nil map
MetaPairs(m) == {<<k, m.kv[k]>> : k \in DOMAIN m.kv}

\* a time.Time: the instant it denotes and the location it is expressed in
Time(inst, loc) == [inst |-> inst, loc |-> loc]

TimeEqual(t, u) == t.inst = u.inst

TimeBefore(t, u) == t.inst < u.inst

TimeAfter(t, u) == t.inst > u.inst

\* the zero value model.Transaction{}
ZeroTxn ==
    [ID |-> "", Amount |-> 0, Currency |-> "",
     EffectiveAt |-> Time(0, "UTC"), Metadata |-> NilMap]

\* makeTxn of the tests: no metadata, UTC
Base(id, inst) ==
    [ID |-> id, Amount |-> 100, Currency |-> "USD",
     EffectiveAt |-> Time(inst, "UTC"), Metadata |-> NilMap]

\* Transaction.Clone: the fields by value, a made map copied key by key
Clone(t) ==
    IF t.Metadata.isNil
    THEN t
    ELSE [t EXCEPT !.Metadata =
            MakeMap([k \in DOMAIN t.Metadata.kv |-> t.Metadata.kv[k]])]

\* Equal without the comparison of the sizes of the maps
EqualNoLen(t, other) ==
    /\ t.ID = other.ID
    /\ t.Amount = other.Amount
    /\ t.Currency = other.Currency
    /\ TimeEqual(t.EffectiveAt, other.EffectiveAt)
    /\ \A k \in DOMAIN t.Metadata.kv :
          /\ k \in DOMAIN other.Metadata.kv
          /\ other.Metadata.kv[k] = t.Metadata.kv[k]

\* Equal comparing the maps as reflect.DeepEqual does: a nil map equals only
\* a nil map
EqualDeep(t, other) ==
    /\ t.ID = other.ID
    /\ t.Amount = other.Amount
    /\ t.Currency = other.Currency
    /\ TimeEqual(t.EffectiveAt, other.EffectiveAt)
    /\ t.Metadata.isNil = other.Metadata.isNil
    /\ MetaPairs(t.Metadata) = MetaPairs(other.Metadata)

\* strings.ToUpper on the currency codes in use
ToUpper(c) ==
    CASE c \in {"usd", "Usd"} -> "USD"
      [] c = "eur" -> "EUR"
      [] OTHER -> c

\* Equal comparing the currencies as the currency filter does, ignoring case
EqualFoldCurrency(t, other) ==
    /\ t.ID = other.ID
    /\ t.Amount = other.Amount
    /\ ToUpper(t.Currency) = ToUpper(other.Currency)
    /\ TimeEqual(t.EffectiveAt, other.EffectiveAt)
    /\ MetaPairs(t.Metadata) = MetaPairs(other.Metadata)

\* Equal with a nil map never equal to anything
EqualNilUnequal(t, other) ==
    /\ t.ID = other.ID
    /\ t.Amount = other.Amount
    /\ t.Currency = other.Currency
    /\ TimeEqual(t.EffectiveAt, other.EffectiveAt)
    /\ ~t.Metadata.isNil
    /\ ~other.Metadata.isNil
    /\ MetaPairs(t.Metadata) = MetaPairs(other.Metadata)

\* Equal reading other.Metadata[k] without the ok flag: a missing key reads ""
EqualNoOk(t, other) ==
    /\ t.ID = other.ID
    /\ t.Amount = other.Amount
    /\ t.Currency = other.Currency
    /\ TimeEqual(t.EffectiveAt, other.EffectiveAt)
    /\ MapLen(t.Metadata) = MapLen(other.Metadata)
    /\ \A k \in DOMAIN t.Metadata.kv :
          (IF k \in DOMAIN other.Metadata.kv THEN other.Metadata.kv[k] ELSE "")
              = t.Metadata.kv[k]

\* Transaction.Equal
Equal(t, other) ==
    IF \/ t.ID # other.ID
       \/ t.Amount # other.Amount
       \/ t.Currency # other.Currency
       \/ ~TimeEqual(t.EffectiveAt, other.EffectiveAt)
    THEN FALSE
    ELSE IF MapLen(t.Metadata) # MapLen(other.Metadata)
    THEN FALSE
    ELSE \A k \in DOMAIN t.Metadata.kv :
            /\ k \in DOMAIN other.Metadata.kv
            /\ other.Metadata.kv[k] = t.Metadata.kv[k]

\* shouldInsertBefore without the comparison of the ids
shouldInsertBeforeNoTie(txn, existing) ==
    TimeBefore(txn.EffectiveAt, existing.EffectiveAt)

\* the closure shouldInsertBefore of Create, on the element `existing`
shouldInsertBefore(txn, existing) ==
    IF TimeBefore(txn.EffectiveAt, existing.EffectiveAt) THEN TRUE
    ELSE IF TimeAfter(txn.EffectiveAt, existing.EffectiveAt) THEN FALSE
    ELSE StrLess(txn.ID, existing.ID)

\* Create appending every record at the end of the ordered sequence
SearchAppend(txn, seq) == Len(seq)

\* the loop of sort.Search over the 0-based indices lo..hi-1 of seq
RECURSIVE SearchLoop(_, _, _, _)
SearchLoop(txn, seq, lo, hi) ==
    IF lo < hi
    THEN LET h == (lo + hi) \div 2
         IN  IF ~shouldInsertBefore(txn, seq[h + 1])
             THEN SearchLoop(txn, seq, h + 1, hi)
             ELSE SearchLoop(txn, seq, lo, h)
    ELSE lo

\* sort.Search(len(s.ordered), shouldInsertBefore): a 0-based index
Search(txn, seq) == SearchLoop(txn, seq, 0, Len(seq))

\* the copy with its arguments swapped: copy(s[index:], s[index+1:])
ShiftLeft(seq, index) ==
    [i \in 1..Len(seq) |-> IF i > index /\ i < Len(seq) THEN seq[i + 1] ELSE seq[i]]

\* copy(s[index+1:], s[index:]) on a slice, index 0-based
ShiftRight(seq, index) ==
    [i \in 1..Len(seq) |-> IF i > index + 1 THEN seq[i - 1] ELSE seq[i]]

\* a nil pointer, and the pointer to a variable that holds v
Nil == [isNil |-> TRUE]

Ptr(v) == [isNil |-> FALSE, v |-> v]

\* t.Add(d), d in hours: an instant of the model is an hour, counted from
\* 2023-12-31T00:00:00Z; 0 stands for the zero time
TimeAdd(t, d) == [t EXCEPT !.inst = @ + d]

\* the strings in use that are decimal numerals of an int, with their values
Numerals ==
    ("0" :> 0) @@ ("1" :> 1) @@ ("2" :> 2) @@ ("3" :> 3) @@ ("-1" :> -1)
        @@ ("100" :> 100) @@ ("200" :> 200) @@ ("1000" :> 1000)
        @@ ("1001" :> 1001)

\* strconv.ParseInt(s, 10, 64): the value, or the syntax or range error
ParseInt(s) ==
    IF s \in DOMAIN Numerals
    THEN [val |-> Numerals[s], err |-> "nil"]
    ELSE [val |-> 0, err |-> "strconv error"]

\* strconv.Atoi(s)
Atoi(s) == ParseInt(s)

\* the strings in use that time.Parse("2006-01-02", s) accepts, with the
\* instant each denotes: midnight UTC of that day
DateStart ==
    ("2024-01-09" :> 216) @@ ("2024-01-10" :> 240) @@ ("2024-01-11" :> 264)

\* strings.EqualFold comparing the code units, not their case folds
EqualFoldExact(s, t) == s = t

\* strings.EqualFold on the currency codes in use
EqualFold(s, t) == ToUpper(s) = ToUpper(t)

\* the largest limit ValidatePagination accepts
PaginationMaxLimit == 1000

\* ValidatePagination rejecting the largest limit
ValidatePaginationOffByOne(limit, offset) ==
    IF limit < 1 \/ limit >= PaginationMaxLimit
    THEN "limit must be between 1 and 1000"
    ELSE IF offset < 0
    THEN "offset must be non-negative"
    ELSE "nil"

\* ValidatePagination: the error it returns, "nil" for none
ValidatePagination(limit, offset) ==
    IF limit < 1 \/ limit > PaginationMaxLimit
    THEN "limit must be between 1 and 1000"
    ELSE IF offset < 0
    THEN "offset must be non-negative"
    ELSE "nil"

\* ParseIntOrDefault returning 0 for a string that is not an integer
ParseIntOrZero(s, defaultVal) ==
    IF s = "" THEN defaultVal
    ELSE IF Atoi(s).err # "nil" THEN 0
    ELSE Atoi(s).val

\* ParseIntOrDefault
ParseIntOrDefault(s, defaultVal) ==
    IF s = "" THEN defaultVal
    ELSE IF Atoi(s).err # "nil" THEN defaultVal
    ELSE Atoi(s).val

\* ParseDateOrNil: the pointer and the error it returns
ParseDateOrNil(dateStr) ==
    IF dateStr = "" THEN [ptr |-> Nil, err |-> "nil"]
    ELSE IF dateStr \notin DOMAIN DateStart
    THEN [ptr |-> Nil, err |-> "parsing time"]
    ELSE [ptr |-> Ptr(Time(DateStart[dateStr], "UTC")), err |-> "nil"]

\* ParseAndValidateDateFilters
ParseAndValidateDateFilters(startDateStr, endDateStr) ==
    LET s == IF startDateStr # "" THEN ParseDateOrNil(startDateStr)
             ELSE [ptr |-> Nil, err |-> "nil"]
        e == IF endDateStr # "" THEN ParseDateOrNil(endDateStr)
             ELSE [ptr |-> Nil, err |-> "nil"]
    IN  IF s.err # "nil"
        THEN [startDate |-> Nil, endDate |-> Nil,
              err |-> "invalid start_date format, use YYYY-MM-DD"]
        ELSE IF e.err # "nil"
        THEN [startDate |-> Nil, endDate |-> Nil,
              err |-> "invalid end_date format, use YYYY-MM-DD"]
        ELSE IF ~s.ptr.isNil /\ ~e.ptr.isNil /\ TimeAfter(s.ptr.v, e.ptr.v)
        THEN [startDate |-> Nil, endDate |-> Nil,
              err |-> "start_date must be before or equal to end_date"]
        ELSE [startDate |-> s.ptr, endDate |-> e.ptr, err |-> "nil"]

\* ParseAndValidateAmountFilters rejecting equal bounds
ParseAndValidateAmountFiltersStrict(minAmountStr, maxAmountStr) ==
    LET lo == ParseInt(minAmountStr)
        hi == ParseInt(maxAmountStr)
    IN  IF minAmountStr # "" /\ lo.err # "nil"
        THEN [minAmount |-> Nil, maxAmount |-> Nil, err |-> "invalid min_amount"]
        ELSE IF maxAmountStr # "" /\ hi.err # "nil"
        THEN [minAmount |-> Nil, maxAmount |-> Nil, err |-> "invalid max_amount"]
        ELSE IF minAmountStr # "" /\ maxAmountStr # "" /\ lo.val >= hi.val
        THEN [minAmount |-> Nil, maxAmount |-> Nil,
              err |-> "min_amount must be less than or equal to max_amount"]
        ELSE [minAmount |-> IF minAmountStr # "" THEN Ptr(lo.val) ELSE Nil,
              maxAmount |-> IF maxAmountStr # "" THEN Ptr(hi.val) ELSE Nil,
              err |-> "nil"]

\* ParseAndValidateAmountFilters
ParseAndValidateAmountFilters(minAmountStr, maxAmountStr) ==
    LET lo == ParseInt(minAmountStr)
        hi == ParseInt(maxAmountStr)
    IN  IF minAmountStr # "" /\ lo.err # "nil"
        THEN [minAmount |-> Nil, maxAmount |-> Nil, err |-> "invalid min_amount"]
        ELSE IF maxAmountStr # "" /\ hi.err # "nil"
        THEN [minAmount |-> Nil, maxAmount |-> Nil, err |-> "invalid max_amount"]
        ELSE IF minAmountStr # "" /\ maxAmountStr # "" /\ lo.val > hi.val
        THEN [minAmount |-> Nil, maxAmount |-> Nil,
              err |-> "min_amount must be less than or equal to max_amount"]
        ELSE [minAmount |-> IF minAmountStr # "" THEN Ptr(lo.val) ELSE Nil,
              maxAmount |-> IF maxAmountStr # "" THEN Ptr(hi.val) ELSE Nil,
              err |-> "nil"]

\* the currency check of ApplyFilters: FALSE where the loop says continue
PassesCurrency(txn, currency) ==
    ~(currency # "" /\ ~EqualFold(txn.Currency, currency))

\* the start date check of ApplyFilters
PassesStartDate(txn, startDate) ==
    ~(~startDate.isNil /\ TimeBefore(txn.EffectiveAt, startDate.v))

\* the end date check of ApplyFilters: endOfDay := endDate.Add(24 * time.Hour)
PassesEndDate(txn, endDate) ==
    IF endDate.isNil THEN TRUE
    ELSE LET endOfDay == TimeAdd(endDate.v, 24)
         IN  ~TimeAfter(txn.EffectiveAt, endOfDay)

\* the amount checks of ApplyFilters with the bounds themselves left out
PassesAmountExclusive(txn, minAmount, maxAmount) ==
    /\ ~(~minAmount.isNil /\ txn.Amount <= minAmount.v)
    /\ ~(~maxAmount.isNil /\ txn.Amount >= maxAmount.v)

\* the amount checks of ApplyFilters
PassesAmount(txn, minAmount, maxAmount) ==
    /\ ~(~minAmount.isNil /\ txn.Amount < minAmount.v)
    /\ ~(~maxAmount.isNil /\ txn.Amount > maxAmount.v)

\* ApplyFilters with its checks chained by else: only the first filter that
\* is supplied is applied
ApplyFiltersElseIf(txns, currency, startDate, endDate, minAmount, maxAmount) ==
    SelectSeq(txns,
        LAMBDA txn :
            IF currency # "" THEN PassesCurrency(txn, currency)
            ELSE IF ~startDate.isNil THEN PassesStartDate(txn, startDate)
            ELSE IF ~endDate.isNil THEN PassesEndDate(txn, endDate)
            ELSE PassesAmount(txn, minAmount, maxAmount))

\* ApplyFilters: the loop appends, in order, each transaction that no check
\* skips
ApplyFilters(txns, currency, startDate, endDate, minAmount, maxAmount) ==
    SelectSeq(txns,
        LAMBDA txn :
            /\ PassesCurrency(txn, currency)
            /\ PassesStartDate(txn, startDate)
            /\ PassesEndDate(txn, endDate)
            /\ PassesAmount(txn, minAmount, maxAmount))

\* ApplyPagination without the clamping of start to len(transactions)
ApplyPaginationNoClamp(txns, limit, offset) ==
    LET start == offset
        sum == Wrap(start + limit)
        end == IF sum > Len(txns) THEN Len(txns) ELSE sum
    IN  IF start < 0 \/ end < start
        THEN [err |-> "panic", list |-> <<>>]
        ELSE [err |-> "nil", list |-> SubSeq(txns, start + 1, end)]

\* ApplyPagination with end := limit, the start not added
ApplyPaginationEndIsLimit(txns, limit, offset) ==
    LET start == IF offset > Len(txns) THEN Len(txns) ELSE offset
        end == IF limit > Len(txns) THEN Len(txns) ELSE limit
    IN  IF start < 0 \/ end < start
        THEN [err |-> "panic", list |-> <<>>]
        ELSE [err |-> "nil", list |-> SubSeq(txns, start + 1, end)]

\* ApplyPagination: transactions[start:end], or the run-time panic of the
\* slice expression
ApplyPagination(txns, limit, offset) ==
    LET start == IF offset > Len(txns) THEN Len(txns) ELSE offset
        sum == Wrap(start + limit)
        end == IF sum > Len(txns) THEN Len(txns) ELSE sum
    IN  IF start < 0 \/ end < start
        THEN [err |-> "panic", list |-> <<>>]
        ELSE [err |-> "nil", list |-> SubSeq(txns, start + 1, end)]

(***************************************************************************)
(* Workloads: one caller with varied payloads, or NumProcs concurrent      *)
(* callers with a few.                                                     *)
(***************************************************************************)
\* payloads that differ from Base("mmm", 1) in exactly one field
Variants ==
    LET b == Base("mmm", 1)
    IN  { [b EXCEPT !.Amount = 999],
          [b EXCEPT !.Currency = "EUR"],
          [b EXCEPT !.Currency = "usd"],
          [b EXCEPT !.EffectiveAt = Time(1, "EST")],
          [b EXCEPT !.Metadata = MakeMap(EmptyKV)],
          [b EXCEPT !.Metadata = MakeMap([k \in {"k"} |-> "v"])],
          [b EXCEPT !.Metadata = MakeMap([k \in {"k"} |-> ""])],
          [b EXCEPT !.Metadata = MakeMap([k \in {"j"} |-> ""])] }

\* the payloads of the callers that go on to mutate what they hold
AliasPayloads ==
    { [Base("aaa", 1) EXCEPT !.Metadata = MakeMap([k \in {"k"} |-> "v"])],
      [Base("mmm", 1) EXCEPT !.Metadata = MakeMap(EmptyKV)],
      Base("mmm", 2) }

Payloads(w) ==
    CASE w = "sequential" ->
            {Base(id, i) : id \in IdSet, i \in 1..MaxInstant} \cup Variants
      [] w = "aliasing" -> AliasPayloads
      [] w = "contending" -> {Base("aaa", 1), Base("mmm", 1)}
      [] w = "paging" -> {Base(id, 1) : id \in IdSet}
      [] OTHER ->
            {Base("aaa", 1), [Base("aaa", 1) EXCEPT !.Amount = 999], Base("mmm", 1)}

Procs == 1..NumProcs

\* the goroutines that call the store of their own accord; in the paging
\* workload goroutine 1 is the client that pages and the others create
Clients(w) ==
    CASE w \in {"concurrent", "contending"} -> Procs
      [] w = "paging" -> Procs \ {1}
      [] OTHER -> {1}

\* the transactions Equal is applied to: they differ from Base("mmm", 1) in
\* one field, in the instant, or in the metadata map only
EqualInputs ==
    LET b == Base("mmm", 1)
    IN  {Base("mmm", i) : i \in 1..MaxInstant}
            \cup {Base("aaa", 1)}
            \cup Variants
            \cup { [b EXCEPT !.Metadata = MakeMap([k \in {"j"} |-> "x"])],
                   [b EXCEPT !.Metadata = MakeMap([k \in {"k", "j"} |-> ""])] }

\* the limits and offsets ValidatePagination is applied to
PaginationInputs ==
    ((-1..MaxLimit) \cup {999, 1000, 1001}) \X (-1..MaxOffset)

\* the start_date and end_date strings: none, days, and strings that are not
\* in the layout 2006-01-02
DateStrings ==
    {"", "2024-01-09", "2024-01-10", "2024-01-11",
     "2024-1-10", "01/10/2024", "2024-01-10T12:00:00Z", "2024-02-30"}

\* the min_amount and max_amount strings: none, integers, and strings that
\* are not an int64
AmountStrings ==
    {"", "-1", "0", "100", "200", "abc", "1.5", "9223372036854775808"}

\* a transaction without metadata
Rec(id, currency, inst, amount) ==
    [ID |-> id, Amount |-> amount, Currency |-> currency,
     EffectiveAt |-> Time(inst, "UTC"), Metadata |-> NilMap]

\* transactions around 2024-01-10: at its midnight, at noon, at 23:00, at the
\* next midnight and the hour after it, and an hour before the day starts
FilterRecords ==
    << Rec("t1", "USD", 240, 100),
       Rec("t2", "usd", 252, 150),
       Rec("t3", "EUR", 263, 200),
       Rec("t4", "USD", 264, 99),
       Rec("t5", "Usd", 265, 201),
       Rec("t6", "USD", 239, 0) >>

\* the slices ApplyFilters is applied to: in any order, with repetitions
FilterLists ==
    { <<>>,
      FilterRecords,
      [i \in 1..Len(FilterRecords) |-> FilterRecords[Len(FilterRecords) + 1 - i]],
      <<FilterRecords[2], FilterRecords[4], FilterRecords[2]>> }

\* the filters ApplyFilters is applied with
FilterArgs ==
    {"", "USD", "usd", "EUR", "GBP"}
        \X {Nil, Ptr(Time(240, "UTC")), Ptr(Time(264, "UTC"))}
        \X {Nil, Ptr(Time(240, "UTC")), Ptr(Time(216, "UTC"))}
        \X {Nil, Ptr(100), Ptr(200)}
        \X {Nil, Ptr(100), Ptr(200)}

\* the slices, limits and offsets ApplyPagination is applied to
PageInputs ==
    {SubSeq(FilterRecords, 1, n) : n \in 0..MaxLimit}
        \X ((-1..MaxLimit) \cup {1000, 1001, MinInt, MaxInt})
        \X ((-1..MaxOffset) \cup {MinInt, MaxInt})

\* the function applications of the function workload
FnCalls ==
    {[op |-> "Equal", args |-> <<a, b>>, out |-> FALSE, done |-> FALSE] :
        a \in EqualInputs, b \in EqualInputs}
    \cup {[op |-> "ValidatePagination", args |-> a, out |-> "", done |-> FALSE] :
            a \in PaginationInputs}
    \cup {[op |-> "ParseAndValidateDateFilters", args |-> a, out |-> "",
           done |-> FALSE] : a \in DateStrings \X DateStrings}
    \cup {[op |-> "ParseAndValidateAmountFilters", args |-> a, out |-> "",
           done |-> FALSE] : a \in AmountStrings \X AmountStrings}
    \cup {[op |-> "ApplyFilters", args |-> <<l>> \o f, out |-> "",
           done |-> FALSE] : l \in FilterLists, f \in FilterArgs}
    \cup {[op |-> "ApplyPagination", args |-> a, out |-> "", done |-> FALSE] :
            a \in PageInputs}

\* the body of a POST /transactions: a JSON object with the members given,
\* effective_at by the instant and the zone its RFC 3339 string denotes
Object(members) == [json |-> "object", members |-> members]

\* a body that is not JSON
NotJSON == [json |-> "invalid", members |-> <<>>]

\* the object with the four required members
Required(id, amount, currency, inst) ==
    ("id" :> id) @@ ("amount" :> amount) @@ ("currency" :> currency)
        @@ ("effective_at" :> Time(inst, "UTC"))

\* f without the member k
Without(f, k) == [x \in DOMAIN f \ {k} |-> f[x]]

\* the bodies the clients post: three ids, a second payload for one of them,
\* an empty metadata object, amount 0, and bodies that lack a required member
\* or carry a negative amount
PostBodies ==
    { Object(Required("aaa", 100, "USD", 240)),
      Object(Required("aaa", 100, "USD", 240) @@ ("metadata" :> EmptyKV)),
      Object(Required("mmm", 100, "usd", 240)),
      Object(Required("mmm", 999, "usd", 240)),
      Object(Required("zzz", 0, "EUR", 264)),
      Object(Without(Required("aaa", 100, "USD", 240), "id")),
      Object(Required("", 100, "USD", 240)),
      Object(Without(Required("aaa", 100, "USD", 240), "currency")),
      Object(Required("mmm", -1, "USD", 240)),
      Object(Without(Required("zzz", 100, "USD", 264), "effective_at")),
      NotJSON }

\* the query string of a GET /transactions: url.Values.Get of each parameter,
\* "" for a parameter that is not there
Query(limit, offset, currency, startDate, endDate, minAmount, maxAmount) ==
    [limit |-> limit, offset |-> offset, currency |-> currency,
     start_date |-> startDate, end_date |-> endDate,
     min_amount |-> minAmount, max_amount |-> maxAmount]

\* the queries of the client: every limit with every offset, each filter
\* alone and the filters together on the first pages
Queries ==
    {Query(l, o, "", "", "", "", "") :
        l \in {"", "abc", "0", "1", "2", "1000", "1001"},
        o \in {"", "1.5", "-1", "0", "1", "2", "3"}}
    \cup {Query(l, o, c, "", "", "", "") :
            l \in {"", "1"}, o \in {"", "1"}, c \in {"usd", "EUR"}}
    \cup {Query(l, o, "", sd, ed, "", "") :
            l \in {"", "1"}, o \in {"", "1"},
            sd \in {"", "2024-01-10", "2024-01-11", "01/10/2024"},
            ed \in {"", "2024-01-09", "2024-01-10", "2024-1-10"}}
    \cup {Query(l, o, "", "", "", lo, hi) :
            l \in {"", "1"}, o \in {"", "1"},
            lo \in {"", "100", "200", "abc"}, hi \in {"", "100", "1.5"}}
    \cup {Query("1", o, "USD", "2024-01-10", "2024-01-10", "0", "100") :
            o \in {"0", "1", "2"}}
    \cup {Query("abc", "", "USD", "2024-01-11", "2024-01-10", "", ""),
          Query("", "1.5", "", "", "", "200", "100")}

\* the ids Get is called with
GetIds(w) ==
    CASE w = "sequential" -> IdSet
      [] w = "contending" -> {"aaa"}
      [] OTHER -> {"aaa", "mmm"}

ListArgs(w) ==
    CASE w = "sequential" ->
            ((-1..MaxLimit) \cup {MinInt, MaxInt})
                \X ((-1..MaxOffset) \cup {MinInt, MaxInt})
      [] w = "aliasing" -> {<<MaxLimit, 0>>, <<1, 1>>}
      [] w = "contending" -> {<<MaxLimit, 0>>}
      [] OTHER -> {<<1, 0>>, <<1, 1>>, <<MaxLimit, 0>>}

(***************************************************************************)
(* State.                                                                  *)
(***************************************************************************)
VARIABLES
    workload,       \* which callers run against the store
    transactions,   \* MemoryStore.transactions: id -> Transaction
    ordered,        \* MemoryStore.ordered
    writer,         \* memstoreMux: the goroutine holding Lock, 0 for none
    readers,        \* memstoreMux: the goroutines holding RLock
    pc,             \* per goroutine: where it is in Create, Get or List
    call,           \* per goroutine: the arguments of the call it runs
    index,          \* per goroutine: Create's local `index`
    ret,            \* per goroutine: the value the call returns
    accepted,       \* id -> the payloads for which Create returned nil
    seen,           \* per goroutine: the ids accepted when its call started
    pre,            \* the index and the sequence when the writer took the lock
    got,            \* id -> the records Get has returned for it
    refs,           \* the address of the metadata map of each stored record,
                    \* of the payload of each running Create, and of each
                    \* record of each result being returned
    held,           \* per goroutine: the transactions it still holds, its
                    \* payloads and the records returned to it
    fn,             \* the function application of the function workloads
    http,           \* per goroutine: the request its handler serves or has
                    \* served last, with the response; and how many times
                    \* each id was answered 201
    pager           \* the client that reads the store page by page: its
                    \* limit, the pages it was returned, the ids stored when
                    \* each page was read and when it began, and whether it
                    \* has received a short page

store == <<transactions, ordered>>

mux == <<writer, readers>>

local == <<pc, call, index, ret>>

history == <<accepted, seen, pre, got>>

alias == <<refs, held>>

\* what no call of the store changes
fixed == <<workload, fn, http, pager>>

vars == <<workload, store, mux, local, history, alias, fn, http, pager>>

NoCall == [txn |-> ZeroTxn, id |-> "", limit |-> 0, offset |-> 0]

NoRet == [err |-> "none", txn |-> ZeroTxn, list |-> <<>>]

AcceptedIds == {id \in IdSet : accepted[id] # <<>>}

NoPre == [transactions |-> [id \in {} |-> ZeroTxn], ordered |-> <<>>]

\* no map allocated: 0 is the address of the nil map
NoRefs ==
    [store |-> [id \in {} |-> 0],
     call |-> [p \in Procs |-> 0],
     ret |-> [p \in Procs |-> <<>>]]

\* no function applied
NoFn == [op |-> "none", args |-> <<>>, out |-> "", done |-> FALSE]

\* no request served
NoExchange ==
    [op |-> "none", req |-> <<>>, params |-> <<>>, called |-> FALSE,
     status |-> 0, body |-> <<>>]

NoHttp == [at |-> [p \in Procs |-> NoExchange], created |-> [id \in IdSet |-> 0]]

\* the ids of a list of records
IdsOf(list) == {list[i].ID : i \in 1..Len(list)}

\* the goroutine of the client that pages
Pager == 1

NoPager ==
    [limit |-> 0, pages |-> <<>>, views |-> <<>>, before |-> {}, done |-> FALSE]

\* the addresses of the maps that something still refers to
Live ==
    {refs.store[id] : id \in DOMAIN refs.store}
        \cup {refs.call[p] : p \in Procs}
        \cup UNION {{refs.ret[p][i].ref : i \in 1..Len(refs.ret[p])} : p \in Procs}
        \cup UNION {{held[p][i].ref : i \in 1..Len(held[p])} : p \in Procs}

\* where the k-th make(map[string]string) of a step allocates: an address
\* that nothing refers to
FreshAddr(k) ==
    CHOOSE a \in 1..(Cardinality(Live) + k) :
        a \notin Live /\ Cardinality({b \in 1..a : b \notin Live}) = k

\* Clone returning the map of the transaction it was called on
CloneRefShared(ref, fresh) == ref

\* the address of the map of Clone's result, for a receiver whose map is at
\* ref: nil stays nil, any other map is copied into a new one
CloneRef(ref, fresh) == IF ref = 0 THEN 0 ELSE fresh

\* List returning s.ordered[offset:end] itself
ListElemSlotShared(pos) == pos

\* the cell of s.ordered that element pos of s.ordered shares with its copy in
\* List's result: none (0), the result is an array of its own
ListElemSlot(pos) == 0

\* the transactions a caller holds after it got `more` of them
Push(h, more) ==
    LET all == h \o more
    IN  IF Len(all) <= MaxHeld
        THEN all
        ELSE SubSeq(all, Len(all) - MaxHeld + 1, Len(all))

\* NewMemoryStore, and no caller running
InitStore ==
    /\ transactions = [id \in {} |-> ZeroTxn]
    /\ ordered = <<>>
    /\ writer = 0
    /\ readers = {}
    /\ pc = [p \in Procs |-> "idle"]
    /\ call = [p \in Procs |-> NoCall]
    /\ index = [p \in Procs |-> 0]
    /\ ret = [p \in Procs |-> NoRet]
    /\ accepted = [id \in IdSet |-> <<>>]
    /\ seen = [p \in Procs |-> {}]
    /\ pre = NoPre
    /\ got = [id \in IdSet |-> {}]
    /\ refs = NoRefs
    /\ held = [p \in Procs |-> <<>>]
    /\ http = NoHttp
    /\ pager = NoPager

Init == workload = "concurrent" /\ fn = NoFn /\ InitStore

\* goroutines that contend for the lock, with two payloads, one id to get
\* and one window to list
InitLive == workload = "contending" /\ fn = NoFn /\ InitStore

\* one client reading the store page by page while the other goroutines
\* create records
InitPaging == workload = "paging" /\ fn = NoFn /\ InitStore

InitSeq == workload = "sequential" /\ fn = NoFn /\ InitStore

\* one caller that mutates the payloads it passed and the records it was
\* returned
InitAlias == workload = "aliasing" /\ fn = NoFn /\ InitStore

\* one application of one of the functions of the model and api packages
InitFn == workload = "functions" /\ fn \in FnCalls /\ InitStore

\* one client of the HTTP API, its requests served one after the other
InitHttp == workload = "http" /\ fn = NoFn /\ InitStore

(***************************************************************************)
(* The handlers of internal/api, up to and after their call of the store.  *)
(***************************************************************************)
\* json.NewDecoder(r.Body).Decode(&txn): the members that are there set the
\* fields, the others stay zero; a metadata object makes a map
Decode(body) ==
    IF body.json # "object"
    THEN [txn |-> ZeroTxn, err |-> "invalid JSON"]
    ELSE LET m == body.members
             Member(k, zero) == IF k \in DOMAIN m THEN m[k] ELSE zero
         IN  [txn |-> [ID |-> Member("id", ""),
                       Amount |-> Member("amount", 0),
                       Currency |-> Member("currency", ""),
                       EffectiveAt |-> Member("effective_at", Time(0, "UTC")),
                       Metadata |-> IF "metadata" \in DOMAIN m
                                    THEN MakeMap(m["metadata"])
                                    ELSE NilMap],
              err |-> "nil"]

\* t.IsZero()
IsZero(t) == t.inst = 0

\* ValidateTransaction without the check of the amount
ValidateTransactionNoAmount(txn) ==
    CASE txn.ID = "" -> "id is required"
      [] txn.Currency = "" -> "currency is required"
      [] IsZero(txn.EffectiveAt) -> "effective_at is required"
      [] OTHER -> "nil"

\* ValidateTransaction: the first case of the switch that holds
ValidateTransaction(txn) ==
    IF txn.ID = "" THEN "id is required"
    ELSE IF txn.Currency = "" THEN "currency is required"
    ELSE IF txn.Amount < 0 THEN "amount must be positive"
    ELSE IF IsZero(txn.EffectiveAt) THEN "effective_at is required"
    ELSE "nil"

\* CreateTransaction answering 201 to a retry as well
CreateStatusCreated(err) ==
    CASE err = "ErrConflict" -> 409
      [] err \in {"nil", "ErrDuplicate"} -> 201
      [] OTHER -> 500

\* the status CreateTransaction answers for the error of Create
CreateStatus(err) ==
    CASE err = "ErrDuplicate" -> 200
      [] err = "ErrConflict" -> 409
      [] err # "nil" -> 500
      [] OTHER -> 201

\* the response of CreateTransaction after Create returned err for txn
CreateResponse(x, err, txn) ==
    [x EXCEPT !.status = CreateStatus(err),
              !.body = IF CreateStatus(err) \in {200, 201}
                       THEN <<txn>>
                       ELSE <<>>]

\* parseQueryParams
parseQueryParams(query) ==
    [limit |-> ParseIntOrDefault(query.limit, 100),
     offset |-> ParseIntOrDefault(query.offset, 0),
     currency |-> ToUpper(query.currency),
     startDateStr |-> query.start_date,
     endDateStr |-> query.end_date,
     minAmountStr |-> query.min_amount,
     maxAmountStr |-> query.max_amount]

\* ListTransactions validating the pagination only before it calls the
\* store: a filter that does not parse or whose bounds cross is not applied
ListRequestPagingOnly(query) ==
    LET q == parseQueryParams(query)
        d == ParseAndValidateDateFilters(q.startDateStr, q.endDateStr)
        a == ParseAndValidateAmountFilters(q.minAmountStr, q.maxAmountStr)
        err == ValidatePagination(q.limit, q.offset)
    IN  [err |-> err,
         params |-> IF err # "nil" THEN <<>>
                    ELSE [limit |-> q.limit, offset |-> q.offset,
                          currency |-> q.currency,
                          startDate |-> d.startDate, endDate |-> d.endDate,
                          minAmount |-> a.minAmount, maxAmount |-> a.maxAmount]]

\* ListTransactions up to its call of the store: the error it answers 400
\* with, or "nil" and the parameters it goes on with
ListRequest(query) ==
    LET q == parseQueryParams(query)
        d == ParseAndValidateDateFilters(q.startDateStr, q.endDateStr)
        a == ParseAndValidateAmountFilters(q.minAmountStr, q.maxAmountStr)
        err == IF ValidatePagination(q.limit, q.offset) # "nil"
               THEN ValidatePagination(q.limit, q.offset)
               ELSE IF d.err # "nil" THEN d.err
               ELSE a.err
    IN  [err |-> err,
         params |-> IF err # "nil" THEN <<>>
                    ELSE [limit |-> q.limit, offset |-> q.offset,
                          currency |-> q.currency,
                          startDate |-> d.startDate, endDate |-> d.endDate,
                          minAmount |-> a.minAmount, maxAmount |-> a.maxAmount]]

\* ListTransactions cutting the page out of the batch before it filters
ListResponsePageFirst(x, r) ==
    IF r.err # "nil"
    THEN [x EXCEPT !.status = 500]
    ELSE LET f == x.params
             page == ApplyPagination(r.list, f.limit, f.offset)
         IN  [x EXCEPT !.status = 200,
                       !.body = ApplyFilters(page.list, f.currency, f.startDate,
                                             f.endDate, f.minAmount, f.maxAmount)]

\* the response of ListTransactions after List returned r
ListResponse(x, r) ==
    IF r.err # "nil"
    THEN [x EXCEPT !.status = 500]
    ELSE LET f == x.params
             filtered == ApplyFilters(r.list, f.currency, f.startDate, f.endDate,
                                      f.minAmount, f.maxAmount)
             results == ApplyPagination(filtered, f.limit, f.offset)
         IN  IF results.err # "nil"
             THEN [x EXCEPT !.status = 500]
             ELSE [x EXCEPT !.status = 200, !.body = results.list]

\* POST /transactions: CreateTransaction decodes and validates the body and
\* answers 400, or calls Create
CreateTransaction(p) ==
    /\ workload = "http"
    /\ p \in Clients(workload)
    /\ pc[p] = "idle"
    /\ \E body \in PostBodies :
          LET d == Decode(body)
              err == IF d.err # "nil" THEN d.err ELSE ValidateTransaction(d.txn)
              x == [NoExchange EXCEPT !.op = "post", !.req = body]
          IN  IF err # "nil"
              THEN /\ http' = [http EXCEPT !.at[p] = [x EXCEPT !.status = 400]]
                   /\ UNCHANGED <<call, pc, seen>>
              ELSE /\ http' = [http EXCEPT !.at[p] = [x EXCEPT !.called = TRUE]]
                   /\ call' = [call EXCEPT ![p] = [NoCall EXCEPT !.txn = d.txn]]
                   /\ pc' = [pc EXCEPT ![p] = "Create_Lock"]
                   /\ seen' = [seen EXCEPT ![p] = AcceptedIds]
    /\ UNCHANGED <<workload, fn, pager, alias, store, mux, index, ret, accepted, pre, got>>

\* GET /transactions: ListTransactions parses and validates the query and
\* answers 400, or calls List(maxRecords, 0)
ListTransactions(p) ==
    /\ workload = "http"
    /\ p \in Clients(workload)
    /\ pc[p] = "idle"
    /\ \E query \in Queries :
          LET q == ListRequest(query)
              x == [NoExchange EXCEPT !.op = "list", !.req = query]
          IN  IF q.err # "nil"
              THEN /\ http' = [http EXCEPT !.at[p] = [x EXCEPT !.status = 400]]
                   /\ UNCHANGED <<call, pc, seen>>
              ELSE /\ http' = [http EXCEPT !.at[p] =
                                  [x EXCEPT !.called = TRUE, !.params = q.params]]
                   /\ call' = [call EXCEPT ![p] =
                                  [NoCall EXCEPT !.limit = maxRecords, !.offset = 0]]
                   /\ pc' = [pc EXCEPT ![p] = "List_RLock"]
                   /\ seen' = [seen EXCEPT ![p] = AcceptedIds]
    /\ UNCHANGED <<workload, fn, pager, alias, store, mux, index, ret, accepted, pre, got>>

(***************************************************************************)
(* MemoryStore.Create                                                      *)
(***************************************************************************)
\* a Create has called Lock and waits for the readers to leave: the RWMutex
\* blocks every RLock called from now until that Create has unlocked
WriterWaiting == \E q \in Procs : pc[q] = "Create_Lock_readers"

\* a caller invokes Create(txn)
CallCreate(p) ==
    /\ p \in Clients(workload)
    /\ pc[p] = "idle"
    /\ \E txn \in Payloads(workload) :
          /\ call' = [call EXCEPT ![p] = [NoCall EXCEPT !.txn = txn]]
          /\ refs' = IF workload = "aliasing" /\ ~txn.Metadata.isNil
                     THEN [refs EXCEPT !.call[p] = FreshAddr(1)]
                     ELSE refs
    /\ pc' = [pc EXCEPT ![p] = "Create_Lock"]
    /\ seen' = [seen EXCEPT ![p] = AcceptedIds]
    /\ UNCHANGED <<fixed, store, mux, index, ret, accepted, pre, got, held>>

\* Create running without waiting for the lock
CreateLockNoWait(p) ==
    /\ pc[p] = "Create_Lock"
    /\ writer' = p
    /\ pc' = [pc EXCEPT ![p] = "Create_lookup"]
    /\ pre' = [transactions |-> transactions, ordered |-> ordered]
    /\ UNCHANGED <<fixed, alias, store, readers, call, index, ret, accepted, seen, got>>

\* s.memstoreMux.Lock(), first half: the caller is the one writer the
\* RWMutex lets through, and from here on RLock admits no new reader
CreateLock(p) ==
    /\ pc[p] = "Create_Lock"
    /\ writer = 0
    /\ ~WriterWaiting
    /\ pc' = [pc EXCEPT ![p] = "Create_Lock_readers"]
    /\ UNCHANGED <<fixed, alias, store, mux, call, index, ret, history>>

\* Lock returning while readers are still inside
CreateLockReadersNoWait(p) ==
    /\ pc[p] = "Create_Lock_readers"
    /\ writer = 0
    /\ writer' = p
    /\ pc' = [pc EXCEPT ![p] = "Create_lookup"]
    /\ pre' = [transactions |-> transactions, ordered |-> ordered]
    /\ UNCHANGED <<fixed, alias, store, readers, call, index, ret, accepted, seen, got>>

\* s.memstoreMux.Lock(), second half: Lock returns when the readers that
\* were inside have all left
CreateLockReaders(p) ==
    /\ pc[p] = "Create_Lock_readers"
    /\ writer = 0
    /\ readers = {}
    /\ writer' = p
    /\ pc' = [pc EXCEPT ![p] = "Create_lookup"]
    /\ pre' = [transactions |-> transactions, ordered |-> ordered]
    /\ UNCHANGED <<fixed, alias, store, readers, call, index, ret, accepted, seen, got>>

\* Create answering every reuse of an id with ErrConflict
CreateExistingAlwaysConflict(existingTxn, txn) == "ErrConflict"

\* what Create returns for an id that is already in the index
CreateExisting(existingTxn, txn) ==
    IF Equal(existingTxn, txn) THEN "ErrDuplicate" ELSE "ErrConflict"

\* Create storing a payload that differs from the stored one instead of
\* refusing it
CreateLookupUpsert(p) ==
    /\ pc[p] = "Create_lookup"
    /\ LET txn == call[p].txn
       IN  IF txn.ID \in DOMAIN transactions /\ Equal(transactions[txn.ID], txn)
           THEN /\ ret' = [ret EXCEPT ![p].err = "ErrDuplicate"]
                /\ pc' = [pc EXCEPT ![p] = "Create_return"]
           ELSE /\ pc' = [pc EXCEPT ![p] = "Create_index"]
                /\ UNCHANGED ret
    /\ UNCHANGED <<fixed, alias, store, mux, call, index, history>>

\* Create writing the payload to the index before it compares it with the
\* stored one
CreateLookupStoreFirst(p) ==
    /\ pc[p] = "Create_lookup"
    /\ LET txn == call[p].txn
       IN  IF txn.ID \in DOMAIN transactions
           THEN /\ ret' = [ret EXCEPT ![p].err =
                              CreateExisting(transactions[txn.ID], txn)]
                /\ transactions' = [transactions EXCEPT ![txn.ID] = Clone(txn)]
                /\ pc' = [pc EXCEPT ![p] = "Create_return"]
           ELSE /\ pc' = [pc EXCEPT ![p] = "Create_index"]
                /\ UNCHANGED <<ret, transactions>>
    /\ UNCHANGED <<fixed, alias, ordered, mux, call, index, history>>

\* existingTxn, exists := s.transactions[txn.ID], and the Equal check
CreateLookup(p) ==
    /\ pc[p] = "Create_lookup"
    /\ LET txn == call[p].txn
       IN  IF txn.ID \in DOMAIN transactions
           THEN /\ ret' = [ret EXCEPT ![p].err =
                              CreateExisting(transactions[txn.ID], txn)]
                /\ pc' = [pc EXCEPT ![p] = "Create_return"]
           ELSE /\ pc' = [pc EXCEPT ![p] = "Create_index"]
                /\ UNCHANGED ret
    /\ UNCHANGED <<fixed, alias, store, mux, call, index, history>>

\* stored := txn.Clone(); s.transactions[txn.ID] = stored
CreateIndex(p) ==
    /\ pc[p] = "Create_index"
    /\ LET txn == call[p].txn
       IN  /\ transactions' =
                 [id \in DOMAIN transactions \cup {txn.ID} |->
                     IF id = txn.ID THEN Clone(txn) ELSE transactions[id]]
           /\ refs' = IF workload = "aliasing"
                      THEN [refs EXCEPT !.store =
                              [id \in DOMAIN refs.store \cup {txn.ID} |->
                                  IF id = txn.ID
                                  THEN CloneRef(refs.call[p], FreshAddr(1))
                                  ELSE refs.store[id]]]
                      ELSE refs
    /\ pc' = [pc EXCEPT ![p] = "Create_search"]
    /\ UNCHANGED <<fixed, ordered, mux, call, index, ret, history, held>>

\* index := sort.Search(len(s.ordered), shouldInsertBefore)
CreateSearch(p) ==
    /\ pc[p] = "Create_search"
    /\ index' = [index EXCEPT ![p] = Search(call[p].txn, ordered)]
    /\ pc' = [pc EXCEPT ![p] = "Create_append"]
    /\ UNCHANGED <<fixed, alias, store, mux, call, ret, history>>

\* s.ordered = append(s.ordered, model.Transaction{})
CreateAppend(p) ==
    /\ pc[p] = "Create_append"
    /\ ordered' = Append(ordered, ZeroTxn)
    /\ pc' = [pc EXCEPT ![p] = "Create_copy"]
    /\ UNCHANGED <<fixed, alias, transactions, mux, call, index, ret, history>>

\* copy(s.ordered[index+1:], s.ordered[index:])
CreateCopy(p) ==
    /\ pc[p] = "Create_copy"
    /\ ordered' = ShiftRight(ordered, index[p])
    /\ pc' = [pc EXCEPT ![p] = "Create_set"]
    /\ UNCHANGED <<fixed, alias, transactions, mux, call, index, ret, history>>

\* s.ordered[index] = stored; return nil
CreateSet(p) ==
    /\ pc[p] = "Create_set"
    /\ ordered' = [ordered EXCEPT ![index[p] + 1] = transactions[call[p].txn.ID]]
    /\ ret' = [ret EXCEPT ![p].err = "nil"]
    /\ pc' = [pc EXCEPT ![p] = "Create_return"]
    /\ UNCHANGED <<fixed, alias, transactions, mux, call, index, history>>

\* Create unlocking as its last statement instead of in a deferred call:
\* the returns of ErrDuplicate and ErrConflict leave the lock taken
CreateReturnNoUnlock(p) ==
    /\ pc[p] = "Create_return"
    /\ writer' = IF ret[p].err = "nil" THEN 0 ELSE writer
    /\ accepted' =
          IF ret[p].err = "nil"
          THEN [accepted EXCEPT ![call[p].txn.ID] = Append(@, call[p].txn)]
          ELSE accepted
    /\ pc' = [pc EXCEPT ![p] = "idle"]
    /\ call' = [call EXCEPT ![p] = NoCall]
    /\ index' = [index EXCEPT ![p] = 0]
    /\ ret' = [ret EXCEPT ![p] = NoRet]
    /\ seen' = [seen EXCEPT ![p] = {}]
    /\ pre' = NoPre
    /\ refs' = [refs EXCEPT !.call[p] = 0]
    /\ held' = IF workload = "aliasing"
               THEN [held EXCEPT ![p] =
                       Push(@, <<[txn |-> call[p].txn, ref |-> refs.call[p],
                                  slot |-> 0, origin |-> "Create",
                                  written |-> FALSE]>>)]
               ELSE held
    /\ http' = IF workload = "http"
               THEN [http EXCEPT
                       !.at[p] = CreateResponse(@, ret[p].err, call[p].txn),
                       !.created[call[p].txn.ID] =
                           IF CreateStatus(ret[p].err) = 201 THEN @ + 1 ELSE @]
               ELSE http
    /\ UNCHANGED <<workload, fn, pager, store, readers, got>>

\* the deferred s.memstoreMux.Unlock(), and Create returns to its caller
CreateReturn(p) ==
    /\ pc[p] = "Create_return"
    /\ writer' = 0
    /\ accepted' =
          IF ret[p].err = "nil"
          THEN [accepted EXCEPT ![call[p].txn.ID] = Append(@, call[p].txn)]
          ELSE accepted
    /\ pc' = [pc EXCEPT ![p] = "idle"]
    /\ call' = [call EXCEPT ![p] = NoCall]
    /\ index' = [index EXCEPT ![p] = 0]
    /\ ret' = [ret EXCEPT ![p] = NoRet]
    /\ seen' = [seen EXCEPT ![p] = {}]
    /\ pre' = NoPre
    /\ refs' = [refs EXCEPT !.call[p] = 0]
    /\ held' = IF workload = "aliasing"
               THEN [held EXCEPT ![p] =
                       Push(@, <<[txn |-> call[p].txn, ref |-> refs.call[p],
                                  slot |-> 0, origin |-> "Create",
                                  written |-> FALSE]>>)]
               ELSE held
    /\ http' = IF workload = "http"
               THEN [http EXCEPT
                       !.at[p] = CreateResponse(@, ret[p].err, call[p].txn),
                       !.created[call[p].txn.ID] =
                           IF CreateStatus(ret[p].err) = 201 THEN @ + 1 ELSE @]
               ELSE http
    /\ UNCHANGED <<workload, fn, pager, store, readers, got>>

(***************************************************************************)
(* MemoryStore.Get                                                         *)
(***************************************************************************)
\* a caller invokes Get(id)
CallGet(p) ==
    /\ p \in Clients(workload)
    /\ pc[p] = "idle"
    /\ \E id \in GetIds(workload) :
          call' = [call EXCEPT ![p] = [NoCall EXCEPT !.id = id]]
    /\ pc' = [pc EXCEPT ![p] = "Get_RLock"]
    /\ seen' = [seen EXCEPT ![p] = AcceptedIds]
    /\ UNCHANGED <<fixed, alias, store, mux, index, ret, accepted, pre, got>>

\* Get reading without waiting for the writer to leave
GetRLockNoWait(p) ==
    /\ pc[p] = "Get_RLock"
    /\ readers' = readers \cup {p}
    /\ pc' = [pc EXCEPT ![p] = "Get_lookup"]
    /\ UNCHANGED <<fixed, alias, store, writer, call, index, ret, history>>

\* s.memstoreMux.RLock()
GetRLock(p) ==
    /\ pc[p] = "Get_RLock"
    /\ writer = 0
    /\ ~WriterWaiting
    /\ readers' = readers \cup {p}
    /\ pc' = [pc EXCEPT ![p] = "Get_lookup"]
    /\ UNCHANGED <<fixed, alias, store, writer, call, index, ret, history>>

\* Get returning s.transactions[id] without looking at the ok flag
GetResultNoExists(m, id) ==
    IF id \in DOMAIN m
    THEN [NoRet EXCEPT !.err = "nil", !.txn = Clone(m[id])]
    ELSE [NoRet EXCEPT !.err = "nil"]

\* what Get returns for id on the index m
GetResult(m, id) ==
    IF id \in DOMAIN m
    THEN [NoRet EXCEPT !.err = "nil", !.txn = Clone(m[id])]
    ELSE [NoRet EXCEPT !.err = "ErrNotFound"]

\* existingTxn, exists := s.transactions[id], and the return statement
GetLookup(p) ==
    /\ pc[p] = "Get_lookup"
    /\ LET r == GetResult(transactions, call[p].id)
       IN  /\ ret' = [ret EXCEPT ![p] = r]
           /\ got' = IF r.err = "nil" /\ workload = "sequential"
                     THEN [got EXCEPT ![call[p].id] = @ \cup {r.txn}]
                     ELSE got
           /\ refs' = IF r.err = "nil" /\ workload = "aliasing"
                      THEN [refs EXCEPT !.ret[p] =
                              <<[ref |-> CloneRef(refs.store[call[p].id],
                                                  FreshAddr(1)),
                                 slot |-> 0]>>]
                      ELSE refs
    /\ pc' = [pc EXCEPT ![p] = "Get_return"]
    /\ UNCHANGED <<fixed, store, mux, call, index, accepted, seen, pre, held>>

\* the deferred s.memstoreMux.RUnlock(), and Get returns to its caller
GetReturn(p) ==
    /\ pc[p] = "Get_return"
    /\ readers' = readers \ {p}
    /\ pc' = [pc EXCEPT ![p] = "idle"]
    /\ call' = [call EXCEPT ![p] = NoCall]
    /\ ret' = [ret EXCEPT ![p] = NoRet]
    /\ seen' = [seen EXCEPT ![p] = {}]
    /\ refs' = [refs EXCEPT !.ret[p] = <<>>]
    /\ held' = IF ret[p].err = "nil" /\ workload = "aliasing"
               THEN [held EXCEPT ![p] =
                       Push(@, <<[txn |-> ret[p].txn, ref |-> refs.ret[p][1].ref,
                                  slot |-> refs.ret[p][1].slot,
                                  origin |-> "Get", written |-> FALSE]>>)]
               ELSE held
    /\ UNCHANGED <<fixed, store, writer, index, accepted, pre, got>>

(***************************************************************************)
(* MemoryStore.List                                                        *)
(***************************************************************************)
\* a caller invokes List(limit, offset)
CallList(p) ==
    /\ p \in Clients(workload)
    /\ pc[p] = "idle"
    /\ \E a \in ListArgs(workload) :
          call' = [call EXCEPT ![p] = [NoCall EXCEPT !.limit = a[1], !.offset = a[2]]]
    /\ pc' = [pc EXCEPT ![p] = "List_RLock"]
    /\ seen' = [seen EXCEPT ![p] = AcceptedIds]
    /\ UNCHANGED <<fixed, alias, store, mux, index, ret, accepted, pre, got>>

\* List reading without taking notice of a writer
ListRLockNoWait(p) ==
    /\ pc[p] = "List_RLock"
    /\ readers' = readers \cup {p}
    /\ pc' = [pc EXCEPT ![p] = "List_slice"]
    /\ UNCHANGED <<fixed, alias, store, writer, call, index, ret, history>>

\* s.memstoreMux.RLock()
ListRLock(p) ==
    /\ pc[p] = "List_RLock"
    /\ writer = 0
    /\ ~WriterWaiting
    /\ readers' = readers \cup {p}
    /\ pc' = [pc EXCEPT ![p] = "List_slice"]
    /\ UNCHANGED <<fixed, alias, store, writer, call, index, ret, history>>

\* List returning the empty list from the last position on
ListResultLastIsBeyond(seq, limit, offset) ==
    LET sum == Wrap(offset + limit)
        end == IF sum > Len(seq) THEN Len(seq) ELSE sum
        n == Wrap(end - offset)
    IN  IF offset >= Len(seq) - 1
        THEN [NoRet EXCEPT !.err = "nil"]
        ELSE IF n < 0 \/ offset < 0 \/ end < offset
        THEN [NoRet EXCEPT !.err = "panic"]
        ELSE [NoRet EXCEPT !.err = "nil",
                           !.list = [i \in 1..n |-> Clone(seq[offset + i])]]

\* List with end := limit, the offset not added
ListResultEndIsLimit(seq, limit, offset) ==
    IF offset >= Len(seq)
    THEN [NoRet EXCEPT !.err = "nil"]
    ELSE LET end == IF limit > Len(seq) THEN Len(seq) ELSE limit
         IN  IF end - offset < 0 \/ offset < 0
             THEN [NoRet EXCEPT !.err = "panic"]
             ELSE [NoRet EXCEPT !.err = "nil",
                                !.list = [i \in 1..(end - offset) |->
                                             Clone(seq[offset + i])]]

\* List capping end at len(s.ordered) - 1
ListResultDropLast(seq, limit, offset) ==
    IF offset >= Len(seq)
    THEN [NoRet EXCEPT !.err = "nil"]
    ELSE LET sum == offset + limit
             end == IF sum > Len(seq) - 1 THEN Len(seq) - 1 ELSE sum
         IN  IF end - offset < 0 \/ offset < 0
             THEN [NoRet EXCEPT !.err = "panic"]
             ELSE [NoRet EXCEPT !.err = "nil",
                                !.list = [i \in 1..(end - offset) |->
                                             Clone(seq[offset + i])]]

\* the body of List on the sequence seq: the window, cloned element by
\* element, or the run-time panic of make or of the slice expression
ListResult(seq, limit, offset) ==
    IF offset >= Len(seq)
    THEN [NoRet EXCEPT !.err = "nil"]
    ELSE LET sum == Wrap(offset + limit)
             end == IF sum > Len(seq) THEN Len(seq) ELSE sum
             n == Wrap(end - offset)
         IN  IF n < 0
             THEN \* make: len out of range
                  [NoRet EXCEPT !.err = "panic"]
             ELSE IF offset < 0 \/ end < offset
             THEN \* s.ordered[offset:end]: slice bounds out of range
                  [NoRet EXCEPT !.err = "panic"]
             ELSE [NoRet EXCEPT !.err = "nil",
                                !.list = [i \in 1..n |-> Clone(seq[offset + i])]]

\* the bounds check, the clamping of end, and the copy of the window
ListSlice(p) ==
    /\ pc[p] = "List_slice"
    /\ LET r == ListResult(ordered, call[p].limit, call[p].offset)
       IN  /\ ret' = [ret EXCEPT ![p] = r]
           /\ refs' = IF workload = "aliasing"
                      THEN [refs EXCEPT !.ret[p] =
                              [i \in 1..Len(r.list) |->
                                  [ref |-> CloneRef(refs.store[r.list[i].ID],
                                                    FreshAddr(i)),
                                   slot |-> ListElemSlot(call[p].offset + i)]]]
                      ELSE refs
    /\ pc' = [pc EXCEPT ![p] = "List_return"]
    /\ UNCHANGED <<fixed, store, mux, call, index, accepted, seen, pre, got, held>>

\* List with s.memstoreMux.RUnlock() as its last statement instead of a
\* deferred call: a panic leaves the function without running it
ListReturnNoDefer(p) ==
    /\ pc[p] = "List_return"
    /\ readers' = IF ret[p].err = "panic" THEN readers ELSE readers \ {p}
    /\ pc' = [pc EXCEPT ![p] = "idle"]
    /\ call' = [call EXCEPT ![p] = NoCall]
    /\ ret' = [ret EXCEPT ![p] = NoRet]
    /\ seen' = [seen EXCEPT ![p] = {}]
    /\ refs' = [refs EXCEPT !.ret[p] = <<>>]
    /\ held' = IF workload = "aliasing"
               THEN [held EXCEPT ![p] =
                       Push(@, [i \in 1..Len(refs.ret[p]) |->
                                   [txn |-> ret[p].list[i],
                                    ref |-> refs.ret[p][i].ref,
                                    slot |-> refs.ret[p][i].slot,
                                    origin |-> "List", written |-> FALSE]])]
               ELSE held
    /\ http' = IF workload = "http"
               THEN [http EXCEPT !.at[p] = ListResponse(@, ret[p])]
               ELSE http
    /\ pager' = IF workload = "paging"
                THEN [pager EXCEPT
                        !.pages = Append(@, ret[p].list),
                        !.views = Append(@, IdsOf(ordered)),
                        !.done = Len(ret[p].list) < call[p].limit]
                ELSE pager
    /\ UNCHANGED <<workload, fn, store, writer, index, accepted, pre, got>>

\* the deferred s.memstoreMux.RUnlock(), and List returns or panics
ListReturn(p) ==
    /\ pc[p] = "List_return"
    /\ readers' = readers \ {p}
    /\ pc' = [pc EXCEPT ![p] = "idle"]
    /\ call' = [call EXCEPT ![p] = NoCall]
    /\ ret' = [ret EXCEPT ![p] = NoRet]
    /\ seen' = [seen EXCEPT ![p] = {}]
    /\ refs' = [refs EXCEPT !.ret[p] = <<>>]
    /\ held' = IF workload = "aliasing"
               THEN [held EXCEPT ![p] =
                       Push(@, [i \in 1..Len(refs.ret[p]) |->
                                   [txn |-> ret[p].list[i],
                                    ref |-> refs.ret[p][i].ref,
                                    slot |-> refs.ret[p][i].slot,
                                    origin |-> "List", written |-> FALSE]])]
               ELSE held
    /\ http' = IF workload = "http"
               THEN [http EXCEPT !.at[p] = ListResponse(@, ret[p])]
               ELSE http
    /\ pager' = IF workload = "paging"
                THEN [pager EXCEPT
                        !.pages = Append(@, ret[p].list),
                        !.views = Append(@, IdsOf(ordered)),
                        !.done = Len(ret[p].list) < call[p].limit]
                ELSE pager
    /\ UNCHANGED <<workload, fn, store, writer, index, accepted, pre, got>>

(***************************************************************************)
(* The functions of the model and api packages, applied to their inputs.   *)
(***************************************************************************)
\* t.Equal(other)
ApplyEqual ==
    /\ fn.op = "Equal"
    /\ ~fn.done
    /\ fn' = [fn EXCEPT !.out = Equal(fn.args[1], fn.args[2]), !.done = TRUE]
    /\ UNCHANGED <<workload, store, mux, local, history, alias, http, pager>>

\* ValidatePagination(limit, offset)
ApplyValidatePagination ==
    /\ fn.op = "ValidatePagination"
    /\ ~fn.done
    /\ fn' = [fn EXCEPT !.out = ValidatePagination(fn.args[1], fn.args[2]),
                        !.done = TRUE]
    /\ UNCHANGED <<workload, store, mux, local, history, alias, http, pager>>

\* ParseAndValidateDateFilters(startDateStr, endDateStr)
ApplyParseAndValidateDateFilters ==
    /\ fn.op = "ParseAndValidateDateFilters"
    /\ ~fn.done
    /\ fn' = [fn EXCEPT !.out = ParseAndValidateDateFilters(fn.args[1], fn.args[2]),
                        !.done = TRUE]
    /\ UNCHANGED <<workload, store, mux, local, history, alias, http, pager>>

\* ParseAndValidateAmountFilters(minAmountStr, maxAmountStr)
ApplyParseAndValidateAmountFilters ==
    /\ fn.op = "ParseAndValidateAmountFilters"
    /\ ~fn.done
    /\ fn' = [fn EXCEPT !.out = ParseAndValidateAmountFilters(fn.args[1], fn.args[2]),
                        !.done = TRUE]
    /\ UNCHANGED <<workload, store, mux, local, history, alias, http, pager>>

\* ApplyFilters(transactions, currency, startDate, endDate, minAmount, maxAmount)
ApplyApplyFilters ==
    /\ fn.op = "ApplyFilters"
    /\ ~fn.done
    /\ fn' = [fn EXCEPT !.out = ApplyFilters(fn.args[1], fn.args[2], fn.args[3],
                                             fn.args[4], fn.args[5], fn.args[6]),
                        !.done = TRUE]
    /\ UNCHANGED <<workload, store, mux, local, history, alias, http, pager>>

\* ApplyPagination(transactions, limit, offset)
ApplyApplyPagination ==
    /\ fn.op = "ApplyPagination"
    /\ ~fn.done
    /\ fn' = [fn EXCEPT !.out = ApplyPagination(fn.args[1], fn.args[2], fn.args[3]),
                        !.done = TRUE]
    /\ UNCHANGED <<workload, store, mux, local, history, alias, http, pager>>

(***************************************************************************)
(* The caller, between its calls: it writes to the maps and to the fields  *)
(* of the transactions it holds.                                           *)
(***************************************************************************)
MapWrites == {"set", "delete", "add"}

\* meta["k"] = "mutated", delete(meta, "k"), meta["j"] = "new"
WriteKV(kv, w) ==
    CASE w = "set" ->
            [x \in DOMAIN kv \cup {"k"} |-> IF x = "k" THEN "mutated" ELSE kv[x]]
      [] w = "delete" -> [x \in DOMAIN kv \ {"k"} |-> kv[x]]
      [] w = "add" ->
            [x \in DOMAIN kv \cup {"j"} |-> IF x = "j" THEN "new" ELSE kv[x]]

\* the transaction t, whose map is at ref, after the write w to the map at a
ThroughMap(t, ref, a, w) ==
    IF ref = a THEN [t EXCEPT !.Metadata.kv = WriteKV(@, w)] ELSE t

\* the paging client asks for its next page, List(limit, offset) with the
\* offset one limit beyond that of the page before; it stops at the first
\* page shorter than limit
PageRequest(p) ==
    /\ workload = "paging"
    /\ p = Pager
    /\ pc[p] = "idle"
    /\ ~pager.done
    /\ \E limit \in IF pager.pages = <<>> THEN 1..MaxLimit ELSE {pager.limit} :
          /\ call' = [call EXCEPT ![p] =
                        [NoCall EXCEPT !.limit = limit,
                                       !.offset = Len(pager.pages) * limit]]
          /\ pager' = [pager EXCEPT
                         !.limit = limit,
                         !.before = IF pager.pages = <<>> THEN AcceptedIds ELSE @]
    /\ pc' = [pc EXCEPT ![p] = "List_RLock"]
    /\ seen' = [seen EXCEPT ![p] = AcceptedIds]
    /\ UNCHANGED <<workload, fn, http, alias, store, mux, index, ret, accepted,
                   pre, got>>

\* the caller writes to the metadata map of a transaction it holds and has
\* not written to yet: every transaction whose map is that map changes with it
MutateMap(p) ==
    /\ workload = "aliasing"
    /\ pc[p] = "idle"
    /\ \E i \in 1..Len(held[p]), w \in MapWrites :
          LET a == held[p][i].ref
          IN  /\ a # 0
              /\ ~held[p][i].written
              /\ held' = [held EXCEPT ![p] =
                            [j \in 1..Len(held[p]) |->
                                [held[p][j] EXCEPT
                                    !.txn = ThroughMap(@, held[p][j].ref, a, w),
                                    !.written = @ \/ j = i]]]
              /\ transactions' =
                    [id \in DOMAIN transactions |->
                        ThroughMap(transactions[id], refs.store[id], a, w)]
              /\ ordered' =
                    [j \in 1..Len(ordered) |->
                        ThroughMap(ordered[j], refs.store[ordered[j].ID], a, w)]
    /\ UNCHANGED <<fixed, mux, local, history, refs>>

\* the caller assigns to a field of a transaction it holds and has not
\* written to yet: list[0].Amount = 9999; a cell shared with s.ordered changes
\* with it
MutateField(p) ==
    /\ workload = "aliasing"
    /\ pc[p] = "idle"
    /\ \E i \in 1..Len(held[p]) :
          LET slot == held[p][i].slot
          IN  /\ ~held[p][i].written
              /\ held' = [held EXCEPT ![p][i].txn.Amount = 9999,
                                      ![p][i].written = TRUE]
              /\ ordered' = IF slot \in 1..Len(ordered)
                            THEN [ordered EXCEPT ![slot].Amount = 9999]
                            ELSE ordered
    /\ UNCHANGED <<fixed, transactions, mux, local, history, refs>>

(***************************************************************************)
(* Properties.                                                             *)
(***************************************************************************)
Range(seq) == {seq[i] : i \in 1..Len(seq)}

\* a and b carry the same id and differ in amount, currency, instant or metadata
Differ(a, b) ==
    /\ a.ID = b.ID
    /\ \/ a.Amount # b.Amount
       \/ a.Currency # b.Currency
       \/ a.EffectiveAt.inst # b.EffectiveAt.inst
       \/ MetaPairs(a.Metadata) # MetaPairs(b.Metadata)

\* no Create is between its append and its final assignment to the sequence
NotShifting == \A p \in Procs : pc[p] \notin {"Create_copy", "Create_set"}

\* C1: a Create(T) whose id is not in the index when it takes the lock returns
\* nil; a Create(T) that follows an accepted Create(T) returns ErrDuplicate and
\* leaves the index and the ordered sequence as they were when it started.
IdempotentWrite ==
    \A p \in Procs :
        pc[p] = "Create_return" =>
            LET T == call[p].txn
            IN  /\ T.ID \notin DOMAIN pre.transactions => ret[p].err = "nil"
                /\ T \in Range(accepted[T.ID]) =>
                      /\ ret[p].err = "ErrDuplicate"
                      /\ transactions = pre.transactions
                      /\ ordered = pre.ordered

\* a retry of an accepted payload that carries metadata has just been answered
IdempotentWriteWitness ==
    \E p \in Procs :
        /\ pc[p] = "Create_return"
        /\ ret[p].err = "ErrDuplicate"
        /\ accepted[call[p].txn.ID] = <<call[p].txn>>
        /\ MapLen(call[p].txn.Metadata) = 1
        /\ Len(ordered) = 2
        /\ ordered = pre.ordered

\* C2: after Create(T) was accepted, a Create(T') with the same id and a
\* different amount, currency, instant or metadata returns ErrConflict, and
\* every Get(id) returns T.
ConflictExclusivity ==
    \A p \in Procs :
        /\ pc[p] = "Create_return" =>
              LET U == call[p].txn
              IN  /\ U.ID \notin DOMAIN pre.transactions => ret[p].err = "nil"
                  /\ \A T \in Range(accepted[U.ID]) :
                        Differ(T, U) =>
                            /\ ret[p].err = "ErrConflict"
                            /\ transactions[U.ID] = T
        /\ pc[p] = "Get_return" =>
              \A T \in Range(accepted[call[p].id]) :
                  ret[p].err = "nil" /\ ret[p].txn = T

\* a payload that differs from the accepted one only in its metadata key has
\* just been refused, and the index still holds the accepted one
ConflictExclusivityWitness ==
    \E p \in Procs :
        /\ pc[p] = "Create_return"
        /\ ret[p].err = "ErrConflict"
        /\ MapLen(call[p].txn.Metadata) = 1
        /\ \E T \in Range(accepted[call[p].txn.ID]) :
              /\ MapLen(T.Metadata) = 1
              /\ T.Amount = call[p].txn.Amount
              /\ transactions[T.ID] = T

\* the sequence is ascending by instant, and by id among equal instants
Sorted(seq) ==
    \A i, j \in 1..Len(seq) :
        i < j =>
            /\ seq[i].EffectiveAt.inst <= seq[j].EffectiveAt.inst
            /\ seq[i].EffectiveAt.inst = seq[j].EffectiveAt.inst =>
                  StrLess(seq[i].ID, seq[j].ID)

\* C3: whenever no Create is in the middle of shifting, the ordered sequence
\* is sorted by effectiveAt and, among equal effectiveAt, by id.
TotalOrder == NotShifting => Sorted(ordered)

\* a record has just been inserted between two stored ones, next to a tie
TotalOrderWitness ==
    \E p \in Procs :
        /\ pc[p] = "Create_return"
        /\ ret[p].err = "nil"
        /\ Len(ordered) = 3
        /\ index[p] = 1
        /\ ordered[2].EffectiveAt.inst = ordered[3].EffectiveAt.inst

\* C4: the ordered sequence never holds two records with the same id, and once
\* the writer has left, each id has been accepted at most once and is in the
\* sequence exactly as many times as it has been accepted.
Uniqueness ==
    /\ (\A p \in Procs : pc[p] # "Create_set") =>
          \A i, j \in 1..Len(ordered) : i # j => ordered[i].ID # ordered[j].ID
    /\ writer = 0 =>
          \A id \in IdSet :
              /\ Len(accepted[id]) <= 1
              /\ Cardinality({i \in 1..Len(ordered) : ordered[i].ID = id})
                    = Len(accepted[id])

\* a Create that started before its id was accepted has been answered
\* ErrDuplicate, with two records stored
UniquenessWitness ==
    \E p \in Procs :
        /\ pc[p] = "Create_return"
        /\ ret[p].err = "ErrDuplicate"
        /\ call[p].txn.ID \notin seen[p]
        /\ Len(ordered) = 2

\* the sequence and the index hold the same records, as many of them
Consistent ==
    /\ Range(ordered) = {transactions[id] : id \in DOMAIN transactions}
    /\ Len(ordered) = Cardinality(DOMAIN transactions)

\* C5: whenever no Create holds the write lock, and whenever a Get or a List
\* holds the read lock, the ordered sequence and the index hold the same
\* records.
IndexOrderConsistency == (writer = 0 \/ readers # {}) => Consistent

\* a reader is inside while a Create waits for the lock
IndexOrderConsistencyWitness ==
    \E p, q \in Procs :
        /\ p \in readers
        /\ pc[q] = "Create_Lock"
        /\ call[q].txn.ID \notin DOMAIN transactions
        /\ Len(ordered) >= 1

\* C6: a Create returns nil only when no Create for its id has been accepted;
\* otherwise exactly one has, the index holds that payload, and the Create
\* returns ErrDuplicate when its payload has the same fields and ErrConflict
\* when it differs.
AtMostOneWrite ==
    \A p \in Procs :
        pc[p] = "Create_return" =>
            LET T == call[p].txn
                A == accepted[T.ID]
            IN  /\ ret[p].err = "nil" => A = <<>> /\ transactions[T.ID] = T
                /\ ret[p].err # "nil" =>
                      /\ Len(A) = 1
                      /\ transactions[T.ID] = A[1]
                      /\ ret[p].err = IF Differ(A[1], T)
                                      THEN "ErrConflict" ELSE "ErrDuplicate"

\* of two Creates for one id that were both called before either was accepted,
\* the second has been answered ErrConflict
AtMostOneWriteWitness ==
    \E p \in Procs :
        /\ pc[p] = "Create_return"
        /\ ret[p].err = "ErrConflict"
        /\ call[p].txn.ID \notin seen[p]

\* C7: a Create for an id that no Create has been accepted for returns nil,
\* and a List(limit, 0) with limit at least the number of accepted Creates
\* returns each accepted payload exactly once, those accepted before it was
\* called included.
ConcurrentDistinct ==
    \A p \in Procs :
        /\ pc[p] = "Create_return" /\ accepted[call[p].txn.ID] = <<>> =>
              ret[p].err = "nil"
        /\ pc[p] = "List_return" /\ call[p].offset = 0
                /\ call[p].limit >= Cardinality(AcceptedIds) =>
              /\ ret[p].err = "nil"
              /\ Len(ret[p].list) = Cardinality(AcceptedIds)
              /\ Range(ret[p].list) = {accepted[id][1] : id \in AcceptedIds}
              /\ seen[p] \subseteq AcceptedIds

\* a List called after as many Creates as there are goroutines were accepted
\* has returned that many records
ConcurrentDistinctWitness ==
    \E p \in Procs :
        /\ pc[p] = "List_return"
        /\ call[p].offset = 0
        /\ Cardinality(seen[p]) = 2
        /\ Len(ret[p].list) = 2

\* C8: a Get that is called after Create(T) returned nil returns T, and a List
\* that is called after it returns T when its window covers T's position.
ReadAfterWrite ==
    \A p \in Procs :
        /\ pc[p] = "Get_return" /\ call[p].id \in seen[p] =>
              ret[p].err = "nil" /\ ret[p].txn = accepted[call[p].id][1]
        /\ pc[p] = "List_return" /\ call[p].offset >= 0 /\ call[p].limit >= 0 =>
              \A id \in seen[p] :
                  \E i \in 1..Len(ordered) :
                      /\ ordered[i] = accepted[id][1]
                      /\ (call[p].offset < i /\ i <= call[p].offset + call[p].limit) =>
                            /\ ret[p].err = "nil"
                            /\ accepted[id][1] \in Range(ret[p].list)

\* a List of the second position, called after two Creates were accepted, has
\* returned the second record
ReadAfterWriteWitness ==
    \E p \in Procs :
        /\ pc[p] = "List_return"
        /\ call[p].offset = 1
        /\ Cardinality(seen[p]) = 2
        /\ Len(ret[p].list) = 1
        /\ ret[p].list[1] = ordered[2]

\* C9: no step removes or replaces a record of the index or of the ordered
\* sequence, and a record that Get returns is Equal to every record Get has
\* returned for that id before.
Immutability ==
    [][/\ \A id \in DOMAIN transactions :
              id \in DOMAIN transactions' /\ transactions'[id] = transactions[id]
       /\ \A t \in Range(ordered) \ {ZeroTxn} : t \in Range(ordered')
       /\ \A id \in IdSet :
              \A r \in got[id], u \in got'[id] : Equal(r, u) /\ Equal(u, r)]_vars

\* Get has returned a record, and a Create of another payload for its id has
\* since been refused
ImmutabilityWitness ==
    \E p \in Procs :
        /\ pc[p] = "Create_return"
        /\ ret[p].err = "ErrConflict"
        /\ got[call[p].txn.ID] = {transactions[call[p].txn.ID]}
        /\ Len(ordered) = 3

\* the pages List(limit, offset), List(limit, offset + limit), ... of seq, up
\* to the first empty one, concatenated
RECURSIVE PagesFrom(_, _, _)
PagesFrom(seq, limit, offset) ==
    LET r == ListResult(seq, limit, offset)
    IN  IF r.err # "nil" \/ r.list = <<>> \/ offset > Len(seq)
        THEN <<>>
        ELSE r.list \o PagesFrom(seq, limit, offset + limit)

\* C10: for every limit >= 1, the pages of List at offsets 0, limit, 2*limit,
\* ... of an unmodified store, concatenated, are the ordered sequence.
PaginationTiling ==
    writer = 0 => \A limit \in 1..MaxLimit : PagesFrom(ordered, limit, 0) = ordered

\* the third of three records has been returned as the second page of two
PaginationTilingWitness ==
    \E p \in Procs :
        /\ pc[p] = "List_return"
        /\ call[p].limit = 2
        /\ call[p].offset = 2
        /\ Len(ordered) = 3
        /\ ret[p].list = <<ordered[3]>>

\* the smaller of two integers
Min(a, b) == IF a < b THEN a ELSE b

\* the records of seq at the 0-based positions lo..hi-1
Window(seq, lo, hi) == [i \in 1..(hi - lo) |-> seq[lo + i]]

\* C11: a List with limit >= 0 and offset >= 0 returns a nil error and the
\* records at the positions min(offset, N) .. min(offset + limit, N) - 1 of the
\* ordered sequence of N records, none when offset >= N.
ListWindow ==
    \A p \in Procs :
        pc[p] = "List_return" /\ call[p].limit >= 0 /\ call[p].offset >= 0 =>
            LET N == Len(ordered)
            IN  /\ ret[p].err = "nil"
                /\ ret[p].list =
                      Window(ordered, Min(call[p].offset, N),
                             Min(call[p].offset + call[p].limit, N))

\* the window of List holds whenever offset + limit is an int
ListWindowInRange ==
    \A p \in Procs :
        pc[p] = "List_return" /\ call[p].limit >= 0 /\ call[p].offset >= 0
                /\ call[p].offset + call[p].limit <= MaxInt =>
            LET N == Len(ordered)
            IN  /\ ret[p].err = "nil"
                /\ ret[p].list =
                      Window(ordered, Min(call[p].offset, N),
                             Min(call[p].offset + call[p].limit, N))

\* C12: List returns a slice and a nil error for every int limit and offset,
\* negative ones and ones whose sum is not an int included; it never panics.
ListNeverPanics ==
    \A p \in Procs : pc[p] = "List_return" => ret[p].err = "nil"

\* C13: whatever the caller has written to the metadata maps of the payloads
\* it passed to Create, a Get returns the payload as it was accepted, and so
\* does List for every record it returns.
WriteIsolation ==
    \A p \in Procs :
        /\ pc[p] = "Get_return" /\ accepted[call[p].id] # <<>> =>
              ret[p].txn = accepted[call[p].id][1]
        /\ pc[p] = "List_return" =>
              \A i \in 1..Len(ret[p].list) :
                  ret[p].list[i] = accepted[ret[p].list[i].ID][1]

\* Get has returned the accepted payload of a Create whose caller has since
\* changed a value of the map it passed
WriteIsolationWitness ==
    \E p \in Procs :
        /\ pc[p] = "Get_return"
        /\ Len(held[p]) = 1
        /\ held[p][1].origin = "Create"
        /\ held[p][1].written
        /\ held[p][1].txn.ID = call[p].id
        /\ accepted[call[p].id] # <<>>
        /\ held[p][1].txn.Metadata.kv # accepted[call[p].id][1].Metadata.kv
        /\ ret[p].txn.Metadata.kv = accepted[call[p].id][1].Metadata.kv
        /\ MapLen(ret[p].txn.Metadata) = 1

\* the transactions that Get or List returned and that a caller holds or is
\* about to receive, each with the address of its map and its shared cell
ReadResults ==
    UNION {{<<"held", p, i>> : i \in {j \in 1..Len(held[p]) :
                                        held[p][j].origin # "Create"}}
              \cup {<<"ret", p, i>> : i \in 1..Len(refs.ret[p])} : p \in Procs}

RefOf(r) == IF r[1] = "held" THEN held[r[2]][r[3]].ref ELSE refs.ret[r[2]][r[3]].ref

SlotOf(r) == IF r[1] = "held" THEN held[r[2]][r[3]].slot ELSE refs.ret[r[2]][r[3]].slot

\* C14: no record that Get or List returned shares its metadata map with the
\* store or with another returned record, or its cell with the ordered
\* sequence; and whatever callers have written to the records returned to
\* them, the index and the ordered sequence hold every payload as accepted.
ReadIsolation ==
    /\ \A r \in ReadResults :
          /\ SlotOf(r) = 0
          /\ RefOf(r) # 0 =>
                /\ \A id \in DOMAIN refs.store : refs.store[id] # RefOf(r)
                /\ \A q \in ReadResults \ {r} : RefOf(q) # RefOf(r)
    /\ writer = 0 =>
          /\ \A id \in DOMAIN transactions :
                accepted[id] # <<>> /\ transactions[id] = accepted[id][1]
          /\ \A i \in 1..Len(ordered) :
                ordered[i] = transactions[ordered[i].ID]

\* a caller has written to the map of a record List returned to it, and List
\* is returning that record again, unchanged
ReadIsolationWitness ==
    \E p \in Procs :
        /\ pc[p] = "List_return"
        /\ Len(held[p]) = 1
        /\ held[p][1].origin = "List"
        /\ held[p][1].written
        /\ held[p][1].ref # 0
        /\ \E i \in 1..Len(ret[p].list) :
              /\ ret[p].list[i].ID = held[p][1].txn.ID
              /\ ret[p].list[i] # held[p][1].txn
              /\ ret[p].list[i] = accepted[held[p][1].txn.ID][1]
              /\ refs.ret[p][i].ref # held[p][1].ref

\* C15: Equal(a, b) is true exactly when the ids, the amounts, the currencies
\* (letter for letter) and the instants are the same and the two maps hold the
\* same keys with the same value for each; maps with different key sets are
\* unequal whatever their values.
EqualityOracle ==
    fn.op = "Equal" /\ fn.done =>
        LET a == fn.args[1]
            b == fn.args[2]
        IN  /\ fn.out <=>
                  /\ a.ID = b.ID
                  /\ a.Amount = b.Amount
                  /\ a.Currency = b.Currency
                  /\ a.EffectiveAt.inst = b.EffectiveAt.inst
                  /\ MetaPairs(a.Metadata) = MetaPairs(b.Metadata)
            /\ DOMAIN a.Metadata.kv # DOMAIN b.Metadata.kv => ~fn.out

\* Equal has found unequal two transactions whose maps have one key each, a
\* different one, the first with the empty string as its value
EqualityOracleWitness ==
    /\ fn.op = "Equal"
    /\ fn.done
    /\ ~fn.out
    /\ fn.args[1].Metadata.kv = [k \in {"k"} |-> ""]
    /\ fn.args[2].Metadata.kv = [k \in {"j"} |-> "x"]

\* a and b are the same but for one having a nil and the other an empty map
NilVersusEmpty(a, b) ==
    /\ a.ID = b.ID
    /\ a.Amount = b.Amount
    /\ a.Currency = b.Currency
    /\ a.EffectiveAt = b.EffectiveAt
    /\ MapLen(a.Metadata) = 0
    /\ MapLen(b.Metadata) = 0
    /\ a.Metadata.isNil # b.Metadata.isNil

\* C16: a Create whose payload differs from the accepted one only in having a
\* nil map where the other has an empty one returns ErrDuplicate, Equal being
\* true of the two in both directions.
NilEqualsEmpty ==
    \A p \in Procs :
        pc[p] = "Create_return" =>
            \A T \in Range(accepted[call[p].txn.ID]) :
                NilVersusEmpty(T, call[p].txn) =>
                    /\ ret[p].err = "ErrDuplicate"
                    /\ Equal(T, call[p].txn)
                    /\ Equal(call[p].txn, T)

\* a payload with a nil map has been answered ErrDuplicate, the accepted one
\* having an empty map
NilEqualsEmptyWitness ==
    \E p \in Procs :
        /\ pc[p] = "Create_return"
        /\ ret[p].err = "ErrDuplicate"
        /\ call[p].txn.Metadata.isNil
        /\ \E T \in Range(accepted[call[p].txn.ID]) :
              ~T.Metadata.isNil /\ MapLen(T.Metadata) = 0

\* a and b are the same but for the letter case of their currencies
CaseOnly(a, b) ==
    /\ a.ID = b.ID
    /\ a.Amount = b.Amount
    /\ a.EffectiveAt = b.EffectiveAt
    /\ a.Metadata = b.Metadata
    /\ a.Currency # b.Currency
    /\ ToUpper(a.Currency) = ToUpper(b.Currency)

\* C17: a Create whose payload differs from the accepted one only in the
\* letter case of its currency returns ErrConflict, and the stored currency
\* stays the accepted one.
CurrencyExact ==
    \A p \in Procs :
        pc[p] = "Create_return" =>
            \A T \in Range(accepted[call[p].txn.ID]) :
                CaseOnly(T, call[p].txn) =>
                    /\ ret[p].err = "ErrConflict"
                    /\ transactions[T.ID].Currency = T.Currency
                    /\ \A i \in 1..Len(ordered) :
                          ordered[i].ID = T.ID => ordered[i].Currency = T.Currency

\* "usd" has been refused for an id accepted with "USD"
CurrencyExactWitness ==
    \E p \in Procs :
        /\ pc[p] = "Create_return"
        /\ ret[p].err = "ErrConflict"
        /\ call[p].txn.Currency = "usd"
        /\ \E T \in Range(accepted[call[p].txn.ID]) :
              T.Currency = "USD" /\ transactions[T.ID].Currency = "USD"

\* C18: Get(id) returns a record Equal to the payload accepted for id, under
\* that id, when a Create for id has returned nil, and ErrNotFound with the
\* zero transaction otherwise.
GetContract ==
    \A p \in Procs :
        pc[p] = "Get_return" =>
            LET A == accepted[call[p].id]
            IN  IF A # <<>>
                THEN /\ ret[p].err = "nil"
                     /\ ret[p].txn.ID = call[p].id
                     /\ Equal(ret[p].txn, A[1])
                     /\ Equal(A[1], ret[p].txn)
                ELSE /\ ret[p].err = "ErrNotFound"
                     /\ ret[p].txn = ZeroTxn

\* Get has answered ErrNotFound for an id while another id is stored
GetContractWitness ==
    \E p \in Procs :
        /\ pc[p] = "Get_return"
        /\ ret[p].err = "ErrNotFound"
        /\ Len(ordered) >= 1
        /\ call[p].id \notin DOMAIN transactions

\* the places of Create between which it writes to the index and the sequence
Writing == {"Create_index", "Create_search", "Create_append", "Create_copy",
            "Create_set"}

\* C19: the index and the ordered sequence change only in a step of a Create
\* that goes on to return nil; a Create that returns ErrDuplicate or
\* ErrConflict leaves both as they were when it took the lock, and no step of
\* a Get or of a List changes either.
FrameEffect ==
    [][/\ store' # store => \E p \in Procs : writer = p /\ pc[p] \in Writing
       /\ \A p \in Procs :
             /\ pc'[p] = "Create_return" /\ ret'[p].err # "nil" =>
                   /\ transactions' = pre'.transactions
                   /\ ordered' = pre'.ordered
             /\ pc[p] \in Writing /\ pc'[p] = "Create_return" =>
                   ret'[p].err = "nil"]_vars

\* a Create has been answered ErrConflict with two records stored, another
\* caller waiting to read
FrameEffectWitness ==
    \E p, q \in Procs :
        /\ pc[p] = "Create_return"
        /\ ret[p].err = "ErrConflict"
        /\ Len(ordered) = 2
        /\ ordered = pre.ordered
        /\ pc[q] \in {"Get_RLock", "List_RLock"}

\* C20: ValidatePagination(limit, offset) returns an error exactly when
\* limit < 1, limit > 1000 or offset < 0.
PaginationValid ==
    fn.op = "ValidatePagination" /\ fn.done =>
        LET limit == fn.args[1]
            offset == fn.args[2]
        IN  (fn.out # "nil") <=> (limit < 1 \/ limit > 1000 \/ offset < 0)

\* limit 1000 with offset 0 has been accepted
PaginationValidWitness ==
    /\ fn.op = "ValidatePagination"
    /\ fn.done
    /\ fn.args = <<1000, 0>>
    /\ fn.out = "nil"

\* the 1-based position of x in seq, 0 when it is not there
Position(seq, x) ==
    IF \E i \in 1..Len(seq) : seq[i] = x
    THEN CHOOSE i \in 1..Len(seq) : seq[i] = x
    ELSE 0

\* the days in the layout YYYY-MM-DD, in chronological order
Days == <<"2024-01-09", "2024-01-10", "2024-01-11">>

\* the decimal integers among the amount strings, in increasing order
Integers64 == <<"-1", "0", "100", "200">>

\* a bound was supplied and is not one of the well-formed strings of `order`
Malformed(str, order) == str # "" /\ Position(order, str) = 0

\* both bounds were supplied, are well formed, and lo is above hi
Crossed(lo, hi, order) ==
    /\ Position(order, lo) > 0
    /\ Position(order, hi) > 0
    /\ Position(order, lo) > Position(order, hi)

\* C22: ParseAndValidateDateFilters and ParseAndValidateAmountFilters return
\* an error exactly when a supplied bound is malformed or both bounds are
\* supplied and the lower one is above the upper one; no bound, one bound and
\* two equal bounds are accepted.
FilterBoundsChecked ==
    /\ fn.op = "ParseAndValidateDateFilters" /\ fn.done =>
          (fn.out.err # "nil") <=>
              \/ Malformed(fn.args[1], Days)
              \/ Malformed(fn.args[2], Days)
              \/ Crossed(fn.args[1], fn.args[2], Days)
    /\ fn.op = "ParseAndValidateAmountFilters" /\ fn.done =>
          (fn.out.err # "nil") <=>
              \/ Malformed(fn.args[1], Integers64)
              \/ Malformed(fn.args[2], Integers64)
              \/ Crossed(fn.args[1], fn.args[2], Integers64)

\* min_amount = max_amount = 100 has been accepted, with both bounds returned
FilterBoundsCheckedWitness ==
    /\ fn.op = "ParseAndValidateAmountFilters"
    /\ fn.done
    /\ fn.args = <<"100", "100">>
    /\ fn.out = [minAmount |-> Ptr(100), maxAmount |-> Ptr(100), err |-> "nil"]

\* the filters of an application of ApplyFilters
Supplied ==
    [currency |-> fn.args[2], startDate |-> fn.args[3], endDate |-> fn.args[4],
     minAmount |-> fn.args[5], maxAmount |-> fn.args[6]]

NoFilter ==
    [currency |-> "", startDate |-> Nil, endDate |-> Nil,
     minAmount |-> Nil, maxAmount |-> Nil]

\* the result of ApplyFilters on list with the filters f
Filtered(list, f) ==
    ApplyFilters(list, f.currency, f.startDate, f.endDate, f.minAmount, f.maxAmount)

\* only the filters named in `which` are supplied, none of the others
Only(which) ==
    \A k \in DOMAIN NoFilter \ which : Supplied[k] = NoFilter[k]

\* C23: ApplyFilters returns the input records that each supplied filter
\* keeps when it is applied alone, each as often as it is in the input and
\* in the order of the input; with no filter it returns the input.
FiltersConjoin ==
    fn.op = "ApplyFilters" /\ fn.done =>
        LET list == fn.args[1]
            Alone(k) == Filtered(list, [NoFilter EXCEPT ![k] = Supplied[k]])
        IN  /\ fn.out = SelectSeq(list,
                            LAMBDA t : \A k \in DOMAIN NoFilter :
                                          t \in Range(Alone(k)))
            /\ Supplied = NoFilter => fn.out = list

\* a currency, a start date and a largest amount supplied together have kept
\* two of six records, fewer than any of them keeps alone
FiltersConjoinWitness ==
    /\ fn.op = "ApplyFilters"
    /\ fn.done
    /\ fn.args[1] = FilterRecords
    /\ Supplied = [NoFilter EXCEPT !.currency = "USD",
                                   !.startDate = Ptr(Time(240, "UTC")),
                                   !.maxAmount = Ptr(100)]
    /\ fn.out = <<FilterRecords[1], FilterRecords[4]>>

\* C24: with an end date D, ApplyFilters keeps a record exactly when its
\* effectiveAt is strictly before D + 24 hours.
EndDateInclusiveDay ==
    fn.op = "ApplyFilters" /\ fn.done /\ Only({"endDate"})
            /\ ~Supplied.endDate.isNil =>
        fn.out = SelectSeq(fn.args[1],
                    LAMBDA t : t.EffectiveAt.inst < Supplied.endDate.v.inst + 24)

\* C25: with amount bounds, ApplyFilters keeps a record exactly when its
\* amount is at least minAmount and at most maxAmount, each bound counting
\* only when supplied.
AmountBoundsInclusive ==
    fn.op = "ApplyFilters" /\ fn.done /\ Only({"minAmount", "maxAmount"}) =>
        fn.out = SelectSeq(fn.args[1],
                    LAMBDA t :
                        /\ Supplied.minAmount.isNil
                              \/ Supplied.minAmount.v <= t.Amount
                        /\ Supplied.maxAmount.isNil
                              \/ t.Amount <= Supplied.maxAmount.v)

\* minAmount = maxAmount = 100 has kept the record of amount 100 and no other
AmountBoundsInclusiveWitness ==
    /\ fn.op = "ApplyFilters"
    /\ fn.done
    /\ fn.args[1] = FilterRecords
    /\ Supplied = [NoFilter EXCEPT !.minAmount = Ptr(100), !.maxAmount = Ptr(100)]
    /\ fn.out = <<FilterRecords[1]>>

\* the currency codes in use that differ in the case of their letters only
CaseClasses == {{"USD", "usd", "Usd"}, {"EUR", "eur"}, {"GBP"}}

\* C26: with a currency c, ApplyFilters keeps a record exactly when its
\* currency is c up to the case of the letters; the empty currency keeps
\* every record.
CurrencyIgnoresCase ==
    fn.op = "ApplyFilters" /\ fn.done /\ Only({"currency"}) =>
        fn.out = SelectSeq(fn.args[1],
                    LAMBDA t :
                        \/ Supplied.currency = ""
                        \/ \E cl \in CaseClasses :
                              t.Currency \in cl /\ Supplied.currency \in cl)

\* the currency usd has kept the records in USD, usd and Usd, not the one in
\* EUR
CurrencyIgnoresCaseWitness ==
    /\ fn.op = "ApplyFilters"
    /\ fn.done
    /\ fn.args[1] = FilterRecords
    /\ Supplied = [NoFilter EXCEPT !.currency = "usd"]
    /\ Len(fn.out) = 5
    /\ FilterRecords[3] \notin Range(fn.out)

\* C27: for 1 <= limit <= 1000 and offset >= 0, ApplyPagination returns the
\* records at the positions min(offset, len) .. min(offset + limit, len) - 1,
\* none when offset >= len and never more than limit; the page at
\* offset + limit starts where the page at offset ends.
PaginationWindow ==
    fn.op = "ApplyPagination" /\ fn.done /\ fn.args[2] >= 1
            /\ fn.args[2] <= 1000 /\ fn.args[3] >= 0 =>
        LET list == fn.args[1]
            limit == fn.args[2]
            offset == fn.args[3]
            N == Len(list)
        IN  /\ fn.out.err = "nil"
            /\ fn.out.list = Window(list, Min(offset, N), Min(offset + limit, N))
            /\ Len(fn.out.list) <= limit
            /\ offset >= N => fn.out.list = <<>>
            /\ offset + limit <= MaxInt =>
                  fn.out.list \o ApplyPagination(list, limit, offset + limit).list
                      = Window(list, Min(offset, N), Min(offset + 2 * limit, N))

\* the second page of one record of a slice of three has been returned
PaginationWindowWitness ==
    /\ fn.op = "ApplyPagination"
    /\ fn.done
    /\ fn.args = <<SubSeq(FilterRecords, 1, 3), 1, 1>>
    /\ fn.out.list = <<FilterRecords[2]>>

\* the parameter is there and is not the decimal numeral of an int
NotAnInt(str) == str # "" /\ str \notin DOMAIN Numerals

\* C21 (as stated): a list request whose limit or offset is there and is not
\* an integer is answered 400.
MalformedPagingRejected ==
    \A p \in Procs :
        LET x == http.at[p]
        IN  x.op = "list" /\ x.status # 0
                /\ (NotAnInt(x.req.limit) \/ NotAnInt(x.req.offset)) =>
                x.status = 400

\* the int a limit or offset stands for when a string that is not an integer
\* counts as no string
Lenient(str, defaultVal) ==
    IF str \in DOMAIN Numerals THEN Numerals[str] ELSE defaultVal

\* the query is out of range or malformed in another way than by a limit or
\* an offset that is not an integer
RefusedAnyway(q) ==
    \/ Lenient(q.limit, 100) < 1
    \/ Lenient(q.limit, 100) > 1000
    \/ Lenient(q.offset, 0) < 0
    \/ Malformed(q.start_date, Days)
    \/ Malformed(q.end_date, Days)
    \/ Crossed(q.start_date, q.end_date, Days)
    \/ Malformed(q.min_amount, Integers64)
    \/ Malformed(q.max_amount, Integers64)
    \/ Crossed(q.min_amount, q.max_amount, Integers64)

\* C21 (amended): a list request whose limit or offset is there and is not an
\* integer is served as if that parameter were not there, with limit 100 or
\* offset 0; it is answered 400 only when the query is out of range or
\* malformed in another way.
MalformedPagingDefaulted ==
    \A p \in Procs :
        LET x == http.at[p]
        IN  x.op = "list" /\ (NotAnInt(x.req.limit) \/ NotAnInt(x.req.offset)) =>
                /\ x.status = 400 <=> RefusedAnyway(x.req)
                /\ x.status # 400 =>
                      /\ x.params.limit = Lenient(x.req.limit, 100)
                      /\ x.params.offset = Lenient(x.req.offset, 0)

\* limit=abc has been answered 200 with the two records stored
MalformedPagingDefaultedWitness ==
    /\ http.at[1].op = "list"
    /\ http.at[1].req = Query("abc", "", "", "", "", "", "")
    /\ http.at[1].status = 200
    /\ http.at[1].params.limit = 100
    /\ Len(http.at[1].body) = 2

\* C28: the first POST of an id is answered 201, a later POST of that id 200
\* when its payload equals the accepted one and 409 when it differs; no id is
\* answered 201 twice; a request answered 200 or 409 leaves the index and
\* the ordered sequence as they were.
WriteOutcomes ==
    [][\A p \in Procs :
          http.at[p].op = "post" /\ http.at[p].status = 0
                  /\ http'.at[p].status # 0 =>
              LET t == call[p].txn
                  status == http'.at[p].status
              IN  /\ status = IF accepted[t.ID] = <<>> THEN 201
                               ELSE IF Differ(accepted[t.ID][1], t) THEN 409
                               ELSE 200
                  /\ status \in {200, 409} =>
                        /\ transactions' = pre.transactions
                        /\ ordered' = pre.ordered
                  /\ \A id \in IdSet : http'.created[id] <= 1]_vars

\* the second payload for mmm has been answered 409, the first one stored
WriteOutcomesWitness ==
    /\ http.at[1].op = "post"
    /\ http.at[1].status = 409
    /\ http.at[1].req = Object(Required("mmm", 999, "usd", 240))
    /\ http.created["mmm"] = 1
    /\ transactions["mmm"].Amount = 100

\* the object lacks a required member or carries an empty id, an empty
\* currency or a negative amount
InvalidPayload(body) ==
    /\ body.json = "object"
    /\ LET m == body.members
       IN  \/ "id" \notin DOMAIN m
           \/ m["id"] = ""
           \/ "currency" \notin DOMAIN m
           \/ m["currency"] = ""
           \/ "effective_at" \notin DOMAIN m
           \/ "amount" \in DOMAIN m /\ m["amount"] < 0

\* C29: a POST whose payload has an empty id, an empty currency, a negative
\* amount or no effective_at is answered 400 without a call of Create; no
\* record with a negative amount is stored; a payload that is valid, amount
\* 0 included, is not answered 400.
InvalidPostsRefused ==
    /\ \A p \in Procs :
          LET x == http.at[p]
          IN  x.op = "post" =>
                  /\ InvalidPayload(x.req) => x.status = 400 /\ ~x.called
                  /\ x.req.json = "object" /\ ~InvalidPayload(x.req) =>
                        x.status # 400 /\ x.called
    /\ \A id \in DOMAIN transactions : transactions[id].Amount >= 0
    /\ \A i \in 1..Len(ordered) : ordered[i].Amount >= 0

\* amount -1 has been answered 400 and the record of amount 0 is stored
InvalidPostsRefusedWitness ==
    /\ http.at[1].op = "post"
    /\ http.at[1].req = Object(Required("mmm", -1, "USD", 240))
    /\ http.at[1].status = 400
    /\ "zzz" \in DOMAIN transactions
    /\ transactions["zzz"].Amount = 0
    /\ "mmm" \notin DOMAIN transactions

\* the page that the request x asks for of the records of the whole store
\* that its filters keep
FullPage(x) ==
    LET kept == Filtered(ordered, x.params)
        N == Len(kept)
    IN  Window(kept, Min(x.params.offset, N),
               Min(x.params.offset + x.params.limit, N))

\* C30 (as stated): whatever the number of stored records, a valid list
\* request is answered with its page of the stored records that its filters
\* keep, so that the pages at offsets 0, limit, 2*limit, ... hold each of
\* them once.
ListWorksOnFullStore ==
    [][\A p \in Procs :
          http.at[p].op = "list" /\ http.at[p].status = 0
                  /\ http'.at[p].status # 0 =>
              /\ http'.at[p].status = 200
              /\ http'.at[p].body = FullPage(http.at[p])]_vars

\* C30 (amended): with at most maxRecords records stored, a valid list
\* request is answered with its page of the stored records that its filters
\* keep.
ListWorksUpToCap ==
    [][\A p \in Procs :
          http.at[p].op = "list" /\ http.at[p].status = 0
                  /\ http'.at[p].status # 0 /\ Len(ordered) <= maxRecords =>
              /\ http'.at[p].status = 200
              /\ http'.at[p].body = FullPage(http.at[p])]_vars

\* the second page of one record has been returned, the filters keeping the
\* two records stored
ListWorksUpToCapWitness ==
    /\ http.at[1].op = "list"
    /\ http.at[1].req = Query("1", "1", "USD", "2024-01-10", "2024-01-10", "0", "100")
    /\ http.at[1].status = 200
    /\ Len(ordered) = 2
    /\ http.at[1].body = <<ordered[2]>>

\* C31: a list request whose pagination, date filter or amount filter does
\* not pass validation is answered 400 and List is not called for it; a
\* request for which List is called has passed all three.
EagerValidation ==
    \A p \in Procs :
        LET x == http.at[p]
        IN  x.op = "list" =>
                /\ RefusedAnyway(x.req) =>
                      x.status = 400 /\ ~x.called /\ pc[p] = "idle"
                /\ x.called => ~RefusedAnyway(x.req) /\ x.status # 400
                /\ x.status = 400 => ~x.called

\* min_amount=200&max_amount=100 has been answered 400 with two records
\* stored and List not called
EagerValidationWitness ==
    /\ http.at[1].op = "list"
    /\ http.at[1].req = Query("", "", "", "", "", "200", "100")
    /\ http.at[1].status = 400
    /\ ~http.at[1].called
    /\ Len(ordered) = 2

\* the steps of goroutine p inside Create, Get and List that wait for
\* nothing: the scheduler runs a runnable goroutine
Steps(p) ==
    \/ CreateLockReaders(p)
    \/ CreateLookup(p)
    \/ CreateIndex(p)
    \/ CreateSearch(p)
    \/ CreateAppend(p)
    \/ CreateCopy(p)
    \/ CreateSet(p)
    \/ CreateReturn(p)
    \/ GetLookup(p)
    \/ GetReturn(p)
    \/ ListSlice(p)
    \/ ListReturn(p)

\* the steps of goroutine p that take the RWMutex: a Lock or RLock that can
\* be granted again and again is granted (a blocked Lock holds off new
\* readers, Unlock admits the readers that waited, and writers queue on a
\* sync.Mutex, which hands over to a starving waiter)
Locks(p) == CreateLock(p) \/ GetRLock(p) \/ ListRLock(p)

\* the positions of a call between the return of Lock or RLock and the
\* deferred unlock
InCreate == {"Create_lookup", "Create_return"} \cup Writing

InRead == {"Get_lookup", "Get_return", "List_slice", "List_return"}

\* C32: while a Create is inside its critical section no Get, no List and no
\* other Create is inside its own; the calls inside while no Create is are
\* Gets and Lists, any number of them.
WriterExcludesAll ==
    /\ \A p \in Procs :
          /\ pc[p] \in InCreate <=> writer = p
          /\ pc[p] \in InRead <=> p \in readers
    /\ \A p, q \in Procs :
          pc[p] \in InCreate /\ q # p => pc[q] \notin InCreate \cup InRead
    /\ writer # 0 => readers = {}

\* a Get and a List are inside their critical sections at the same time, on
\* a store that holds a record
WriterExcludesAllWitness ==
    /\ pc[1] = "Get_return"
    /\ pc[2] = "List_slice"
    /\ readers = {1, 2}
    /\ Len(ordered) = 1

\* C33: what a List returns while Creates are under way is a window of the
\* sequence as the completed Creates left it: every element is an accepted
\* record (never the zero-valued placeholder), no id occurs twice, a List of
\* the whole store has every record stored before it was called, and a Get
\* inside at the same time has found no record that this List lacks. A Get
\* finds a record exactly when the Create of that id has completed.
SnapshotReads ==
    \A p \in Procs :
        /\ pc[p] = "List_return" =>
              LET l == ret[p].list
                  whole == call[p].offset = 0 /\ call[p].limit = MaxLimit
              IN  /\ ret[p].err = "nil"
                  /\ \A i \in 1..Len(l) :
                        /\ l[i] # ZeroTxn
                        /\ l[i].ID \in AcceptedIds
                        /\ l[i] = accepted[l[i].ID][1]
                  /\ \A i, j \in 1..Len(l) : i # j => l[i].ID # l[j].ID
                  /\ whole => seen[p] \subseteq IdsOf(l) /\ IdsOf(l) = AcceptedIds
                  /\ \A q \in Procs :
                        whole /\ pc[q] = "Get_return" /\ ret[q].err = "nil" =>
                            call[q].id \in IdsOf(l)
        /\ pc[p] = "Get_return" =>
              (ret[p].err = "nil" <=> call[p].id \in AcceptedIds)

\* a List of the whole store has returned the one record stored while a
\* Create of another id has called Lock and waits for this List to leave
SnapshotReadsWitness ==
    /\ pc[1] = "List_return"
    /\ call[1].limit = MaxLimit
    /\ Len(ret[1].list) = 1
    /\ ret[1].list[1].ID = "mmm"
    /\ pc[2] = "Create_Lock_readers"
    /\ call[2].txn.ID = "aaa"

NegativeOffsetAsZero ==
    \A p \in Procs :
        pc[p] = "List_return" /\ call[p].offset < 0 /\ call[p].limit >= 1 =>
            /\ ret[p].err = "nil"
            /\ ret[p].list = Window(ordered, 0, Min(call[p].limit, Len(ordered)))

\* the ids that were stored between the reading of page k and that of page
\* k + 1 and that sort before the last record of page k
Early(k) ==
    {id \in pager.views[k + 1] \ pager.views[k] :
        pager.pages[k] # <<>>
            /\ shouldInsertBefore(accepted[id][1],
                                  pager.pages[k][Len(pager.pages[k])])}

\* C36: paging by limit and offset shifts under writes. When exactly one
\* record that sorts before the end of a full page was stored between the
\* reading of that page and of the next, the next page begins with the
\* record the page ended with, and the new record is on neither of the two
\* pages although records after it were returned; when no such record was
\* stored, the two pages share no record.
PagingShifts ==
    \A k \in 1..(Len(pager.pages) - 1) :
        LET page == pager.pages[k]
            next == pager.pages[k + 1]
        IN  /\ Cardinality(Early(k)) = 1 /\ Len(page) = pager.limit =>
                  /\ next # <<>>
                  /\ next[1] = page[Len(page)]
                  /\ Early(k) \cap (IdsOf(page) \cup IdsOf(next)) = {}
            /\ Early(k) = {} => IdsOf(page) \cap IdsOf(next) = {}

\* with limit 1, "mmm" was returned on the first page, "aaa" was stored, and
\* "mmm" was returned again on the second page, "aaa" on neither
PagingShiftsWitness ==
    /\ pager.limit = 1
    /\ Len(pager.pages) = 2
    /\ IdsOf(pager.pages[1]) = {"mmm"}
    /\ IdsOf(pager.pages[2]) = {"mmm"}
    /\ pager.views[2] \ pager.views[1] = {"aaa"}

\* the ids on the pages the client was returned
Paged == UNION {IdsOf(pager.pages[k]) : k \in 1..Len(pager.pages)}

\* C37: when the client that pages at offsets 0, limit, 2*limit, ... has
\* received a page shorter than limit, every record stored before its first
\* request is on at least one of its pages, whatever was created meanwhile;
\* and before that, every such record that is not yet on a page lies at or
\* beyond the offset of the next request.
PagingMissesNothing ==
    /\ pager.done => pager.before \subseteq Paged
    /\ \A id \in pager.before \ Paged :
          \E i \in 1..Len(ordered) :
              /\ ordered[i].ID = id
              /\ i > Len(pager.pages) * pager.limit

\* the client began with "mmm" and "zzz" stored, "aaa" was created after its
\* first page, and it has finished with "mmm" returned twice
PagingMissesNothingWitness ==
    /\ pager.done
    /\ pager.limit = 1
    /\ pager.before = {"mmm", "zzz"}
    /\ Len(pager.pages) = 4
    /\ pager.pages[1] = pager.pages[2]
    /\ IdsOf(pager.pages[3]) = {"zzz"}

\* C38: under a fair scheduler every call of Create, Get and List that has
\* begun returns; a caller that has returned holds neither lock; and while a
\* call is under way some call can take a step (no deadlock).
EveryCallReturns ==
    /\ \A p \in Procs : (pc[p] # "idle") ~> (pc[p] = "idle")
    /\ [](\A p \in Procs : pc[p] = "idle" => p \notin readers /\ writer # p)
    /\ []((\E p \in Procs : pc[p] # "idle") =>
            ENABLED (\E p \in Procs : Steps(p) \/ Locks(p)))

\* a List has called RLock and is held off while a Create is shifting the
\* ordered sequence
EveryCallReturnsWitness ==
    /\ pc[1] = "List_RLock"
    /\ pc[2] = "Create_copy"
    /\ writer = 2

\* C39: the step in which a List fails at run time leaves the index and the
\* ordered sequence as they were with the read lock still held, and the step
\* after it releases the read lock, again without touching the store, so
\* that the caller holds no lock once List is left.
FailedListReleases ==
    [][\A p \in Procs :
          /\ pc[p] = "List_slice" /\ pc'[p] = "List_return"
                  /\ ret'[p].err = "panic" =>
                /\ store' = store
                /\ p \in readers'
          /\ pc[p] = "List_return" /\ ret[p].err = "panic" =>
                /\ store' = store
                /\ pc'[p] = "idle"
                /\ p \notin readers'
                /\ writer' # p
          /\ pc'[p] = "idle" => p \notin readers' /\ writer' # p]_vars

\* a List with a negative argument has failed on a store of two records and
\* is about to leave the function
FailedListReleasesWitness ==
    /\ pc[1] = "List_return"
    /\ ret[1].err = "panic"
    /\ call[1].offset < 0
    /\ 1 \in readers
    /\ Len(ordered) = 2

\* C40: a.Equal(a) is true and a.Equal(b) = b.Equal(a), and Create answers a
\* resubmission of b over a stored a as it answers one of a over a stored b.
EqualSymmetric ==
    fn.op = "Equal" /\ fn.done =>
        LET a == fn.args[1]
            b == fn.args[2]
        IN  /\ fn.out = Equal(b, a)
            /\ a = b => fn.out
            /\ Equal(a, a)
            /\ CreateExisting(a, b) = CreateExisting(b, a)

\* two payloads with one metadata key each, k with the empty value and j
\* with a value, have been found unequal
EqualSymmetricWitness ==
    /\ fn.op = "Equal"
    /\ fn.done
    /\ fn.args[1].Metadata = MakeMap([k \in {"k"} |-> ""])
    /\ fn.args[2].Metadata = MakeMap([k \in {"j"} |-> "x"])
    /\ ~fn.out

(***************************************************************************)
(* The specifications.                                                     *)
(***************************************************************************)
Next ==
    \E p \in Procs :
        \/ CallCreate(p)
        \/ CreateLock(p)
        \/ CreateLockReaders(p)
        \/ CreateLookup(p)
        \/ CreateIndex(p)
        \/ CreateSearch(p)
        \/ CreateAppend(p)
        \/ CreateCopy(p)
        \/ CreateSet(p)
        \/ CreateReturn(p)
        \/ CallGet(p)
        \/ GetRLock(p)
        \/ GetLookup(p)
        \/ GetReturn(p)
        \/ CallList(p)
        \/ ListRLock(p)
        \/ ListSlice(p)
        \/ ListReturn(p)

\* NumProcs goroutines calling one store concurrently
Spec == Init /\ [][Next]_vars

\* NumProcs goroutines calling one store under a fair scheduler; a caller
\* is free not to call again
SpecLive ==
    /\ InitLive
    /\ [][Next]_vars
    /\ \A p \in Procs : WF_vars(Steps(p)) /\ SF_vars(Locks(p))

\* one goroutine calling the store, with every payload of Payloads
SpecSeq == InitSeq /\ [][Next]_vars

NextAlias ==
    \/ Next
    \/ \E p \in Procs : MutateMap(p) \/ MutateField(p)

\* one goroutine calling the store and writing to what it holds in between
SpecAlias == InitAlias /\ [][NextAlias]_vars

NextFn ==
    \/ ApplyEqual
    \/ ApplyValidatePagination
    \/ ApplyParseAndValidateDateFilters
    \/ ApplyParseAndValidateAmountFilters
    \/ ApplyApplyFilters
    \/ ApplyApplyPagination

\* one function of the model or api package applied to one input
SpecFn == InitFn /\ [][NextFn]_vars

NextHttp ==
    \E p \in Procs :
        \/ CreateTransaction(p)
        \/ CreateLock(p)
        \/ CreateLockReaders(p)
        \/ CreateLookup(p)
        \/ CreateIndex(p)
        \/ CreateSearch(p)
        \/ CreateAppend(p)
        \/ CreateCopy(p)
        \/ CreateSet(p)
        \/ CreateReturn(p)
        \/ ListTransactions(p)
        \/ ListRLock(p)
        \/ ListSlice(p)
        \/ ListReturn(p)

\* the handlers of POST /transactions and GET /transactions serving the
\* requests of one client, one at a time
SpecHttp == InitHttp /\ [][NextHttp]_vars

NextPaging ==
    \E p \in Procs :
        \/ PageRequest(p)
        \/ ListRLock(p)
        \/ ListSlice(p)
        \/ ListReturn(p)
        \/ CallCreate(p)
        \/ CreateLock(p)
        \/ CreateLockReaders(p)
        \/ CreateLookup(p)
        \/ CreateIndex(p)
        \/ CreateSearch(p)
        \/ CreateAppend(p)
        \/ CreateCopy(p)
        \/ CreateSet(p)
        \/ CreateReturn(p)

\* a client paging through List while records are created
SpecPaging == InitPaging /\ [][NextPaging]_vars

====
